---- MODULE Spec2Model ----
(***************************************************************************)
(* Anomaly detection engine of the hybrid solar backend:                   *)
(*   application/background/anomaly-detection.ts (detectors, orchestrator, *)
(*   createAnomalyIfNotExists), application/anomaly.ts (acknowledge,       *)
(*   resolve, manual trigger) and infrastructure/scheduler.ts (cron).      *)
(*                                                                         *)
(* Numbers: the code computes in IEEE doubles; the model computes the same *)
(* expressions in exact rationals [n |-> numerator, d |-> denominator > 0].*)
(* Instants are pairs [day, ms]: UTC for reading timestamps, the wall clock *)
(* of the process time zone for what setHours produces.                    *)
(***************************************************************************)
EXTENDS Integers, Sequences, FiniteSets, TLC

----------------------------------------------------------------------------
(* Exact rational arithmetic standing for the code's number type *)

RECURSIVE GCD(_, _)
GCD(a, b) == IF b = 0 THEN a ELSE GCD(b, a % b)

Abs(x) == IF x < 0 THEN -x ELSE x

Rat(n, d) ==
  LET s == IF d < 0 THEN -1 ELSE 1
      g == GCD(Abs(n), Abs(d))
  IN  [n |-> (s * n) \div g, d |-> (s * d) \div g]

RInt(i) == [n |-> i, d |-> 1]
RAdd(a, b) == Rat(a.n * b.d + b.n * a.d, a.d * b.d)
RSub(a, b) == Rat(a.n * b.d - b.n * a.d, a.d * b.d)
RMul(a, b) == Rat(a.n * b.n, a.d * b.d)
RDiv(a, b) == Rat(a.n * b.d, a.d * b.n)
RLt(a, b) == a.n * b.d < b.n * a.d
RLe(a, b) == a.n * b.d <= b.n * a.d
RGt(a, b) == RLt(b, a)
RGe(a, b) == RLe(b, a)
RMin(a, b) == IF RLt(b, a) THEN b ELSE a
RMax(a, b) == IF RGt(b, a) THEN b ELSE a
RAbs(a) == [n |-> Abs(a.n), d |-> a.d]
\* Math.round: the nearest integer, halves rounded up
RRound(a) == (2 * a.n + a.d) \div (2 * a.d)

RECURSIVE RSum(_)
RSum(s) == IF s = <<>> THEN RInt(0) ELSE RAdd(Head(s), RSum(Tail(s)))

\* Array.prototype.slice(-k)
LastK(s, k) == IF Len(s) <= k THEN s ELSE SubSeq(s, Len(s) - k + 1, Len(s))
\* Array.prototype.slice(0, k)
FirstK(s, k) == IF Len(s) <= k THEN s ELSE SubSeq(s, 1, k)

Range(s) == {s[i] : i \in 1..Len(s)}

\* the value of a one-element set: binds a computed value to a name
Only(S) == CHOOSE x \in S : TRUE

----------------------------------------------------------------------------
(* Entity enumerations *)

ANOMALY_TYPES == {"COMPLETE_FAILURE", "DEGRADATION", "WEATHER_RELATED", "SENSOR_MALFUNCTION"}
SEVERITY_LEVELS == {"CRITICAL", "HIGH", "MEDIUM", "LOW"}
ANOMALY_STATUS == {"ACTIVE", "ACKNOWLEDGED", "RESOLVED"}

\* severityOrder.indexOf
severityOrder == <<"LOW", "MEDIUM", "HIGH", "CRITICAL">>
SeverityIndex(s) == CHOOSE i \in 1..Len(severityOrder) : severityOrder[i] = s

\* the forward order of the record lifecycle
StatusRank(s) == CASE s = "ACTIVE" -> 0 [] s = "ACKNOWLEDGED" -> 1 [] s = "RESOLVED" -> 2

\* null, where the code holds a document or null
Null == [missing |-> TRUE]

MsPerHour == 60 * 60 * 1000
MsPerDay == 24 * MsPerHour

----------------------------------------------------------------------------
(* State *)

VARIABLES
  tzOffset,       \* hours the process time zone is ahead of UTC
  solarUnits,     \* SolarUnit collection: _id -> [status, capacity]
  energyRecords,  \* EnergyGenerationRecord collection, in insertion order
  anomalies,      \* Anomaly collection, in insertion order; _id = index
  clock,          \* the reading of new Date(); it advances with every stored change
  run,            \* invocations of runAnomalyDetection: caller -> frame
  last,           \* the invocation that settled last, until the next one starts
  okRuns,         \* an invocation has already completed normally
  cronAlive,      \* the node-cron task is still scheduled
  req,            \* API requests in flight: slot -> frame
  expected,       \* what the detectors say on the stored readings (see Expected)
  call,           \* the detector call made last: its arguments, locals and return value
  weatherCache,   \* the weatherCache Map: cache key -> CacheEntry, Null where it has none
  weatherNow,     \* the reading of Date.now(), in ms
  weatherCalls,   \* calls of fetchWeatherFromOpenMeteo in flight: slot -> frame
  weatherLast,    \* how the call that ended last ended
  weatherStarted, \* calls of fetchWeatherFromOpenMeteo made so far
  weatherTicks    \* advances of Date.now() so far

weatherVars ==
  <<weatherCache, weatherNow, weatherCalls, weatherLast, weatherStarted, weatherTicks>>

vars ==
  <<tzOffset, solarUnits, energyRecords, anomalies, clock, run, last, okRuns, cronAlive, req,
    expected, call, weatherVars>>

----------------------------------------------------------------------------
(* Dates.  An instant is [day, ms] in UTC; Local turns it into the wall     *)
(* clock of the process time zone, which setHours and getSunTimes work on.  *)

TLe(a, b) == a.day < b.day \/ (a.day = b.day /\ a.ms <= b.ms)
TLt(a, b) == a.day < b.day \/ (a.day = b.day /\ a.ms < b.ms)

Local(t) ==
  LET m == t.ms + tzOffset * MsPerHour
  IN  [day |-> t.day + (m \div MsPerDay), ms |-> m % MsPerDay]

\* a date string read as noon UTC of that date
DateOfNoon(date) == [day |-> date, ms |-> 12 * MsPerHour]

\* new Date("YYYY-MM-DD"): midnight UTC of that date
DateOf(date) == [day |-> date, ms |-> 0]

\* d.setHours(h, 0, 0, 0) on the local wall clock
SetHours(local, h, ms) == [day |-> local.day, ms |-> h * MsPerHour + ms]

getSunTimes(date) ==
  [sunrise |-> SetHours(Local(date), 6, 0), sunset |-> SetHours(Local(date), 18, 0)]

\* a daylight test that leaves out the sunrise
isDaytimeUntilSunset(timestamp) == TLe(Local(timestamp), getSunTimes(timestamp).sunset)

isDaytime(timestamp) ==
  LET sun == getSunTimes(timestamp)
  IN  TLe(sun.sunrise, Local(timestamp)) /\ TLe(Local(timestamp), sun.sunset)

----------------------------------------------------------------------------
(* Detectors.  description and recommendation are the code's template      *)
(* strings without the interpolated figures, which details carries.        *)

NoDetection == [anomalyDetected |-> FALSE]

\* no detector has been called
NoCall == [fn |-> "none"]

detectCompleteFailure(energyGenerated, panelCapacity, timestamp, cloudCoverage) ==
  LET isDay == isDaytime(timestamp)
      generationPercent == RMul(RDiv(energyGenerated, panelCapacity), RInt(100))
      zeroGeneration == RLt(generationPercent, Rat(1, 2))
      notHeavilyClouded == cloudCoverage < 90
  IN  IF isDay /\ zeroGeneration /\ notHeavilyClouded
      THEN [anomalyDetected |-> TRUE,
            anomalyType |-> "COMPLETE_FAILURE",
            severity |-> "CRITICAL",
            confidence |-> Rat(95, 100),
            description |-> "Complete panel failure detected",
            recommendation |-> "Immediate inspection required",
            details |-> [generationPercent |-> generationPercent,
                         cloudCoverage |-> cloudCoverage, isDaytime |-> isDay]]
      ELSE NoDetection

DefaultDegradationThreshold == 15

\* a degradation check that fires at the threshold itself
detectPanelDegradationGe(currentGeneration, historicalAverage, degradationThreshold) ==
  IF RLe(historicalAverage, RInt(0))
  THEN NoDetection
  ELSE
    LET performanceRatio == RMul(RDiv(currentGeneration, historicalAverage), RInt(100))
        degradation == RSub(RInt(100), performanceRatio)
    IN  IF RGe(degradation, RInt(degradationThreshold))
        THEN [anomalyDetected |-> TRUE,
              anomalyType |-> "DEGRADATION",
              severity |-> IF RGt(degradation, RInt(25)) THEN "HIGH" ELSE "MEDIUM",
              confidence |-> RMin(Rat(85, 100), RAdd(Rat(6, 10), RMul(degradation, Rat(1, 100)))),
              description |-> "Panel efficiency reduced",
              recommendation |-> "Schedule maintenance inspection",
              details |-> [currentGeneration |-> currentGeneration,
                           historicalAverage |-> historicalAverage,
                           performanceRatio |-> performanceRatio,
                           degradationPercent |-> degradation]]
        ELSE NoDetection

detectPanelDegradation(currentGeneration, historicalAverage, degradationThreshold) ==
  IF RLe(historicalAverage, RInt(0))
  THEN NoDetection
  ELSE
    LET performanceRatio == RMul(RDiv(currentGeneration, historicalAverage), RInt(100))
        degradation == RSub(RInt(100), performanceRatio)
    IN  IF RGt(degradation, RInt(degradationThreshold))
        THEN [anomalyDetected |-> TRUE,
              anomalyType |-> "DEGRADATION",
              severity |-> IF RGt(degradation, RInt(25)) THEN "HIGH" ELSE "MEDIUM",
              confidence |-> RMin(Rat(85, 100), RAdd(Rat(6, 10), RMul(degradation, Rat(1, 100)))),
              description |-> "Panel efficiency reduced",
              recommendation |-> "Schedule maintenance inspection",
              details |-> [currentGeneration |-> currentGeneration,
                           historicalAverage |-> historicalAverage,
                           performanceRatio |-> performanceRatio,
                           degradationPercent |-> degradation]]
        ELSE NoDetection

\* const cloudImpact = cloudCoverage / 100 * 0.7
cloudImpact(cloudCoverage) == RMul(Rat(cloudCoverage, 100), Rat(7, 10))

\* a rain term without Math.min(0.8, ...)
rainImpactUnclamped(precipitation) == RMul(precipitation, Rat(2, 10))

\* const rainImpact = Math.min(0.8, precipitation * 0.2)
rainImpact(precipitation) == RMin(Rat(8, 10), RMul(precipitation, Rat(2, 10)))

\* a score without Math.min(0.9, ...)
weatherSeverityUnclamped(cloudCoverage, precipitation) ==
  RAdd(cloudImpact(cloudCoverage), rainImpact(precipitation))

\* const weatherSeverity = Math.min(0.9, cloudImpact + rainImpact)
weatherSeverityOf(cloudCoverage, precipitation) ==
  RMin(Rat(9, 10), RAdd(cloudImpact(cloudCoverage), rainImpact(precipitation)))

\* a classifier whose second branch takes any mismatch, not only an excess shortfall
classifyWeatherImpactAnyMismatch(energyGenerated, expectedGeneration, cloudCoverage, precipitation) ==
  LET weatherSeverity == weatherSeverityOf(cloudCoverage, precipitation)
      expectedReduction == RMul(weatherSeverity, RInt(100))
      actualReduction ==
        IF RGt(expectedGeneration, RInt(0))
        THEN RMul(RDiv(RSub(expectedGeneration, energyGenerated), expectedGeneration), RInt(100))
        ELSE RInt(0)
      reductionMatch == RLt(RAbs(RSub(actualReduction, expectedReduction)), RInt(20))
  IN  IF RGt(weatherSeverity, Rat(4, 10)) /\ reductionMatch
      THEN [anomalyDetected |-> TRUE,
            anomalyType |-> "WEATHER_RELATED",
            severity |-> "LOW",
            confidence |-> Rat(8, 10),
            description |-> "Low generation due to weather conditions",
            recommendation |-> "No action required",
            details |-> [weatherSeverity |-> weatherSeverity,
                         expectedReduction |-> expectedReduction,
                         actualReduction |-> actualReduction,
                         cloudCoverage |-> cloudCoverage,
                         precipitation |-> precipitation,
                         isPanelIssue |-> FALSE]]
      ELSE IF RGt(weatherSeverity, Rat(4, 10)) /\ ~reductionMatch
      THEN [anomalyDetected |-> TRUE,
            anomalyType |-> "WEATHER_RELATED",
            severity |-> "MEDIUM",
            confidence |-> Rat(7, 10),
            description |-> "Generation lower than expected even accounting for weather",
            recommendation |-> "Panel issue suspected",
            details |-> [weatherSeverity |-> weatherSeverity,
                         expectedReduction |-> expectedReduction,
                         actualReduction |-> actualReduction,
                         cloudCoverage |-> cloudCoverage,
                         precipitation |-> precipitation,
                         isPanelIssue |-> TRUE]]
      ELSE NoDetection

classifyWeatherImpact(energyGenerated, expectedGeneration, cloudCoverage, precipitation) ==
  LET weatherSeverity == weatherSeverityOf(cloudCoverage, precipitation)
      expectedReduction == RMul(weatherSeverity, RInt(100))
      actualReduction ==
        IF RGt(expectedGeneration, RInt(0))
        THEN RMul(RDiv(RSub(expectedGeneration, energyGenerated), expectedGeneration), RInt(100))
        ELSE RInt(0)
      reductionMatch == RLt(RAbs(RSub(actualReduction, expectedReduction)), RInt(20))
  IN  IF RGt(weatherSeverity, Rat(4, 10)) /\ reductionMatch
      THEN [anomalyDetected |-> TRUE,
            anomalyType |-> "WEATHER_RELATED",
            severity |-> "LOW",
            confidence |-> Rat(8, 10),
            description |-> "Low generation due to weather conditions",
            recommendation |-> "No action required",
            details |-> [weatherSeverity |-> weatherSeverity,
                         expectedReduction |-> expectedReduction,
                         actualReduction |-> actualReduction,
                         cloudCoverage |-> cloudCoverage,
                         precipitation |-> precipitation,
                         isPanelIssue |-> FALSE]]
      ELSE IF RGt(weatherSeverity, Rat(4, 10)) /\ ~reductionMatch
              /\ RGt(actualReduction, RAdd(expectedReduction, RInt(20)))
      THEN [anomalyDetected |-> TRUE,
            anomalyType |-> "WEATHER_RELATED",
            severity |-> "MEDIUM",
            confidence |-> Rat(7, 10),
            description |-> "Generation lower than expected even accounting for weather",
            recommendation |-> "Panel issue suspected",
            details |-> [weatherSeverity |-> weatherSeverity,
                         expectedReduction |-> expectedReduction,
                         actualReduction |-> actualReduction,
                         cloudCoverage |-> cloudCoverage,
                         precipitation |-> precipitation,
                         isPanelIssue |-> TRUE]]
      ELSE NoDetection

\* a reduce that keeps its first element
ReduceFirst(highest, rest) == highest

\* issues.reduce((highest, current) => index(current) > index(highest) ? current : highest)
RECURSIVE ReduceHighest(_, _)
ReduceHighest(highest, rest) ==
  IF rest = <<>> THEN highest
  ELSE ReduceHighest(
         IF SeverityIndex(Head(rest).severity) > SeverityIndex(highest.severity)
         THEN Head(rest) ELSE highest,
         Tail(rest))

\* Math.max(...issues.map(i => i.confidence))
RECURSIVE MaxConfidence(_)
MaxConfidence(issues) ==
  IF Len(issues) = 1 THEN issues[1].confidence
  ELSE RMax(issues[1].confidence, MaxConfidence(Tail(issues)))

Issue(name, severity, confidence) ==
  [issue |-> name, severity |-> severity, confidence |-> confidence]

\* Check 3: the last six readings are one value and recentReadings[0] is not 0
StuckIssue(recentReadings) ==
  IF Len(recentReadings) >= 6
     /\ Cardinality(Range(LastK(recentReadings, 6))) = 1
     /\ recentReadings[1] # RInt(0)
  THEN <<Issue("Sensor reading stuck at same value", "HIGH", Rat(9, 10))>>
  ELSE <<>>

\* Check 4: coefficient of variation of the last four readings above 1.5
\* (stdDev / mean > 1.5 with mean > 0 is variance / mean^2 > 2.25)
ErraticIssue(recentReadings) ==
  IF Len(recentReadings) >= 4
  THEN LET recent == LastK(recentReadings, 4)
           mean == RDiv(RSum(recent), RInt(Len(recent)))
           squaredDiffs == [i \in 1..Len(recent) |->
                              RMul(RSub(recent[i], mean), RSub(recent[i], mean))]
           variance == RDiv(RSum(squaredDiffs), RInt(Len(recent)))
       IN  IF RGt(mean, RInt(0))
              /\ RGt(RDiv(variance, RMul(mean, mean)), Rat(9, 4))
           THEN <<Issue("Erratic sensor readings detected", "MEDIUM", Rat(75, 100))>>
           ELSE <<>>
  ELSE <<>>

\* the checks without Check 5
SensorIssuesNoNegative(energyGenerated, panelCapacity, timestamp, recentReadings) ==
  (IF ~isDaytime(timestamp) /\ RGt(energyGenerated, Rat(1, 100))
   THEN <<Issue("Night-time generation detected", "CRITICAL", Rat(98, 100))>> ELSE <<>>)
  \o (IF RGt(energyGenerated, RMul(panelCapacity, Rat(105, 100)))
      THEN <<Issue("Generation exceeds panel capacity", "CRITICAL", Rat(99, 100))>> ELSE <<>>)
  \o StuckIssue(recentReadings)
  \o ErraticIssue(recentReadings)

\* the checks with Check 2 comparing by >=
SensorIssuesCapacityGe(energyGenerated, panelCapacity, timestamp, recentReadings) ==
  (IF ~isDaytime(timestamp) /\ RGt(energyGenerated, Rat(1, 100))
   THEN <<Issue("Night-time generation detected", "CRITICAL", Rat(98, 100))>> ELSE <<>>)
  \o (IF RGe(energyGenerated, RMul(panelCapacity, Rat(105, 100)))
      THEN <<Issue("Generation exceeds panel capacity", "CRITICAL", Rat(99, 100))>> ELSE <<>>)
  \o StuckIssue(recentReadings)
  \o ErraticIssue(recentReadings)
  \o (IF RLt(energyGenerated, RInt(0))
      THEN <<Issue("Negative generation reading", "CRITICAL", RInt(1))>> ELSE <<>>)

SensorIssues(energyGenerated, panelCapacity, timestamp, recentReadings) ==
  (IF ~isDaytime(timestamp) /\ RGt(energyGenerated, Rat(1, 100))
   THEN <<Issue("Night-time generation detected", "CRITICAL", Rat(98, 100))>> ELSE <<>>)
  \o (IF RGt(energyGenerated, RMul(panelCapacity, Rat(105, 100)))
      THEN <<Issue("Generation exceeds panel capacity", "CRITICAL", Rat(99, 100))>> ELSE <<>>)
  \o StuckIssue(recentReadings)
  \o ErraticIssue(recentReadings)
  \o (IF RLt(energyGenerated, RInt(0))
      THEN <<Issue("Negative generation reading", "CRITICAL", RInt(1))>> ELSE <<>>)

detectSensorMalfunction(energyGenerated, panelCapacity, timestamp, recentReadings) ==
  LET issues == SensorIssues(energyGenerated, panelCapacity, timestamp, recentReadings)
  IN  IF Len(issues) > 0
      THEN [anomalyDetected |-> TRUE,
            anomalyType |-> "SENSOR_MALFUNCTION",
            severity |-> ReduceHighest(issues[1], Tail(issues)).severity,
            confidence |-> MaxConfidence(issues),
            description |-> "Sensor malfunction detected",
            recommendation |-> "Calibration or replacement required",
            details |-> [issues |-> issues,
                         currentReading |-> energyGenerated,
                         panelCapacity |-> panelCapacity,
                         isNight |-> ~isDaytime(timestamp)]]
      ELSE NoDetection

----------------------------------------------------------------------------
(* Queries on the EnergyGenerationRecord collection *)

\* collection.find(filter) is SelectSeq: the matching documents in collection order

\* .sort({ timestamp: -1 })
RECURSIVE SortByTimestampDesc(_)
SortByTimestampDesc(s) ==
  IF s = <<>> THEN <<>>
  ELSE Only({<<s[i]>> \o SortByTimestampDesc(SubSeq(s, 1, i - 1) \o SubSeq(s, i + 1, Len(s))) :
             i \in {CHOOSE i \in 1..Len(s) :
                      \A j \in 1..Len(s) :
                         TLt(s[j].timestamp, s[i].timestamp)
                         \/ (s[j].timestamp = s[i].timestamp /\ i <= j)}})

\* d.setDate(d.getDate() - k)
DaysAgo(now, k) == [day |-> now.day - k, ms |-> now.ms]

\* EnergyGenerationRecord.find({solarUnitId, timestamp: {$gte: sevenDaysAgo}}).sort({timestamp: -1})
RecentRecords(unitId, now) ==
  Only({SortByTimestampDesc(found) :
        found \in {SelectSeq(energyRecords,
                             LAMBDA r : r.solarUnitId = unitId
                                        /\ TLe(DaysAgo(now, 7), r.timestamp))}})

\* EnergyGenerationRecord.find({solarUnitId, timestamp: {$gte: thirtyDaysAgo, $lt: sevenDaysAgo}})
HistoricalRecords(unitId, now) ==
  SelectSeq(energyRecords,
         LAMBDA r : r.solarUnitId = unitId
                    /\ TLe(DaysAgo(now, 30), r.timestamp)
                    /\ TLt(r.timestamp, DaysAgo(now, 7)))

HistoricalAverage(historicalRecords) ==
  IF Len(historicalRecords) > 0
  THEN RDiv(RSum([i \in 1..Len(historicalRecords) |-> historicalRecords[i].energyGenerated]),
            RInt(Len(historicalRecords)))
  ELSE RInt(0)

\* the readings without the slice
RecentReadingsAll(records) == [i \in 1..Len(records) |-> records[i].energyGenerated]

\* records.slice(0, 10).map(r => r.energyGenerated)
RecentReadings(records) ==
  [i \in 1..Len(FirstK(records, 10)) |-> FirstK(records, 10)[i].energyGenerated]

\* new Date(record.timestamp).toISOString().split('T')[0]: the UTC calendar date
DateKey(record) == record.timestamp.day

\* keys of the dailyTotals Map, in insertion order
RECURSIVE DateKeys(_, _)
DateKeys(records, seen) ==
  IF records = <<>> THEN <<>>
  ELSE IF DateKey(Head(records)) \in seen THEN DateKeys(Tail(records), seen)
  ELSE <<DateKey(Head(records))>>
       \o DateKeys(Tail(records), seen \cup {DateKey(Head(records))})

\* one entry of dailyTotals: total, avgCloud, avgPrecip of the date's records
DayData(records, date) ==
  LET day == SelectSeq(records, LAMBDA r : DateKey(r) = date)
      recordCount == Len(day)
  IN  [date |-> date,
       total |-> RSum([i \in 1..recordCount |-> day[i].energyGenerated]),
       avgCloud |-> RDiv(RSum([i \in 1..recordCount |->
                                 IF day[i].cloudCoverage = 0 THEN RInt(50)
                                 ELSE RInt(day[i].cloudCoverage)]),
                         RInt(recordCount)),
       avgPrecip |-> RDiv(RSum([i \in 1..recordCount |-> day[i].precipitation]),
                          RInt(recordCount))]

DailyTotals(records) ==
  LET dates == DateKeys(records, {})
  IN  [i \in 1..Len(dates) |-> DayData(records, dates[i])]

----------------------------------------------------------------------------
(* The detection pass over one daily bucket: runAnomalyDetection, the body   *)
(* of the loop over dailyTotalsArray up to the persistence calls             *)

Fired(check) == IF check.anomalyDetected THEN <<check>> ELSE <<>>

\* the gate without the test for a critical detection
DegradationGateNoCritical(detections, historicalAverage) ==
  RGt(historicalAverage, RInt(0))

\* 4. Degradation (only if no critical issues found)
DegradationGate(detections, historicalAverage) ==
  (\A i \in 1..Len(detections) : detections[i].severity # "CRITICAL")
  /\ RGt(historicalAverage, RInt(0))

\* checks 2 to 4 with a fired complete failure ending the bucket's checks
OtherChecksStopAtFailure(energyGenerated, panelCapacity, timestamp, cloudCoverage, precipitation, average) ==
  LET failureCheck ==
        detectCompleteFailure(energyGenerated, panelCapacity, timestamp, cloudCoverage)
      expectedGeneration == RMul(panelCapacity, Rat(1, 2))
      weatherCheck ==
        classifyWeatherImpact(energyGenerated, expectedGeneration, cloudCoverage, precipitation)
  IN  IF failureCheck.anomalyDetected
      THEN [detections |-> <<failureCheck>>, evaluated |-> {"COMPLETE_FAILURE"}]
      ELSE [detections |-> Fired(weatherCheck),
            evaluated |-> {"COMPLETE_FAILURE", "WEATHER_RELATED"}]

\* checks 2 to 4, reached when the sensor check did not fire
OtherChecks(energyGenerated, panelCapacity, timestamp, cloudCoverage, precipitation, average) ==
  LET failureCheck ==
        detectCompleteFailure(energyGenerated, panelCapacity, timestamp, cloudCoverage)
      expectedGeneration == RMul(panelCapacity, Rat(1, 2))
      weatherCheck ==
        classifyWeatherImpact(energyGenerated, expectedGeneration, cloudCoverage, precipitation)
      found == Fired(failureCheck) \o Fired(weatherCheck)
      gate == DegradationGate(found, average)
      degradationCheck ==
        detectPanelDegradation(energyGenerated, average, DefaultDegradationThreshold)
  IN  [detections |-> found \o (IF gate THEN Fired(degradationCheck) ELSE <<>>),
       evaluated |-> {"COMPLETE_FAILURE", "WEATHER_RELATED"}
                     \cup (IF gate THEN {"DEGRADATION"} ELSE {})]

PanelCapacity(solarUnit) ==
  IF solarUnit.capacity = RInt(0) THEN RInt(5) ELSE solarUnit.capacity

\* the bucket's checks when the sensor check has returned sensorCheck
AfterSensorNoSkip(sensorCheck, solarUnit, dayData, historicalAverage) ==
  Only({[detections |-> Fired(sensorCheck) \o others.detections,
         evaluated |-> {"SENSOR_MALFUNCTION"} \cup others.evaluated] :
        others \in {OtherChecks(dayData.total, PanelCapacity(solarUnit), DateOf(dayData.date),
                                RRound(dayData.avgCloud), dayData.avgPrecip,
                                historicalAverage)}})

AfterSensor(sensorCheck, solarUnit, dayData, historicalAverage) ==
  IF sensorCheck.anomalyDetected
  THEN [detections |-> <<sensorCheck>>, evaluated |-> {"SENSOR_MALFUNCTION"}]
  ELSE Only({[detections |-> others.detections,
              evaluated |-> {"SENSOR_MALFUNCTION"} \cup others.evaluated] :
             others \in {OtherChecks(dayData.total, PanelCapacity(solarUnit),
                                     DateOf(dayData.date), RRound(dayData.avgCloud),
                                     dayData.avgPrecip, historicalAverage)}})

DetectBucket(solarUnit, dayData, historicalAverage, recentReadings) ==
  Only({AfterSensor(sensorCheck, solarUnit, dayData, historicalAverage) :
        sensorCheck \in {detectSensorMalfunction(dayData.total, PanelCapacity(solarUnit),
                                                 DateOf(dayData.date), recentReadings)}})

----------------------------------------------------------------------------
(* createAnomalyIfNotExists *)

StartOfDay(date) == SetHours(Local(DateOf(date)), 0, 0)
EndOfDay(date) == SetHours(Local(DateOf(date)), 23, MsPerHour - 1)

\* the lookup without the affectedPeriod.start window
FindExistingAnyDay(solarUnitId, anomalyType, date) ==
  LET hits == {i \in 1..Len(anomalies) :
                 /\ anomalies[i].solarUnitId = solarUnitId
                 /\ anomalies[i].anomalyType = anomalyType}
  IN  IF hits = {} THEN 0 ELSE CHOOSE i \in hits : \A j \in hits : i <= j

\* the lookup without the anomalyType field
FindExistingAnyType(solarUnitId, anomalyType, date) ==
  LET hits == {i \in 1..Len(anomalies) :
                 /\ anomalies[i].solarUnitId = solarUnitId
                 /\ TLe(StartOfDay(date), anomalies[i].affectedPeriod.start)
                 /\ TLe(anomalies[i].affectedPeriod.start, EndOfDay(date))}
  IN  IF hits = {} THEN 0 ELSE CHOOSE i \in hits : \A j \in hits : i <= j

\* the lookup with $gt in place of $gte
FindExistingGt(solarUnitId, anomalyType, date) ==
  LET hits == {i \in 1..Len(anomalies) :
                 /\ anomalies[i].solarUnitId = solarUnitId
                 /\ anomalies[i].anomalyType = anomalyType
                 /\ TLt(StartOfDay(date), anomalies[i].affectedPeriod.start)
                 /\ TLe(anomalies[i].affectedPeriod.start, EndOfDay(date))}
  IN  IF hits = {} THEN 0 ELSE CHOOSE i \in hits : \A j \in hits : i <= j

\* a lookup that matches ACTIVE records only
FindExistingActive(solarUnitId, anomalyType, date) ==
  LET hits == {i \in 1..Len(anomalies) :
                 /\ anomalies[i].solarUnitId = solarUnitId
                 /\ anomalies[i].anomalyType = anomalyType
                 /\ anomalies[i].status = "ACTIVE"
                 /\ TLe(StartOfDay(date), anomalies[i].affectedPeriod.start)
                 /\ TLe(anomalies[i].affectedPeriod.start, EndOfDay(date))}
  IN  IF hits = {} THEN 0 ELSE CHOOSE i \in hits : \A j \in hits : i <= j

\* Anomaly.findOne({solarUnitId, anomalyType, "affectedPeriod.start": {$gte, $lte}}):
\* the _id of the first match, 0 for null
FindExisting(solarUnitId, anomalyType, date) ==
  LET hits == {i \in 1..Len(anomalies) :
                 /\ anomalies[i].solarUnitId = solarUnitId
                 /\ anomalies[i].anomalyType = anomalyType
                 /\ TLe(StartOfDay(date), anomalies[i].affectedPeriod.start)
                 /\ TLe(anomalies[i].affectedPeriod.start, EndOfDay(date))}
  IN  IF hits = {} THEN 0 ELSE CHOOSE i \in hits : \A j \in hits : i <= j

\* the document with setHours forgotten on endOfDay
NewAnomalyEndNotSet(solarUnitId, detection, date, now) ==
  [solarUnitId |-> solarUnitId,
   anomalyType |-> detection.anomalyType,
   severity |-> detection.severity,
   status |-> "ACTIVE",
   detectedAt |-> now,
   affectedPeriod |-> [start |-> StartOfDay(date), end |-> Local(DateOf(date))],
   description |-> detection.description,
   recommendation |-> detection.recommendation,
   confidence |-> detection.confidence,
   details |-> detection.details,
   acknowledgedAt |-> 0,
   acknowledgedBy |-> "null",
   resolvedAt |-> 0,
   resolvedBy |-> "null"]

\* new Anomaly({...}) with the schema defaults
NewAnomaly(solarUnitId, detection, date, now) ==
  [solarUnitId |-> solarUnitId,
   anomalyType |-> detection.anomalyType,
   severity |-> detection.severity,
   status |-> "ACTIVE",
   detectedAt |-> now,
   affectedPeriod |-> [start |-> StartOfDay(date), end |-> EndOfDay(date)],
   description |-> detection.description,
   recommendation |-> detection.recommendation,
   confidence |-> detection.confidence,
   details |-> detection.details,
   acknowledgedAt |-> 0,
   acknowledgedBy |-> "null",
   resolvedAt |-> 0,
   resolvedBy |-> "null"]

----------------------------------------------------------------------------
(* Bounds and input sets *)

MaxReadings == 2    \* energy generation records in the whole fleet
Today == 30         \* day number of the day the process runs on

Units == {1, 2}
Procs == {"cron", "manual"}
RecentDays == {Today - 2, Today - 1}
HistoricalDays == {Today - 10}
TzOffsets == {-5, 0, 8}
CapacityVals == {RInt(5)}
EnergyVals == {RInt(0), RInt(1), RInt(6)}
CloudVals == {50, 80}
PrecipVals == {RInt(0)}
HistoricalEnergyVals == {RInt(2)}

\* new Date() while a run is under way
Now == [day |-> Today, ms |-> MsPerHour]

ReadingVals ==
  [energyGenerated : EnergyVals, cloudCoverage : CloudVals, precipitation : PrecipVals]

Reading(unitId, day, val) ==
  [solarUnitId |-> unitId,
   timestamp |-> [day |-> day, ms |-> 12 * MsPerHour],
   energyGenerated |-> val.energyGenerated,
   cloudCoverage |-> val.cloudCoverage,
   precipitation |-> val.precipitation]

\* the documents of a set of (unit, day) slots, oldest first
RECURSIVE Collection(_, _)
Collection(slots, val) ==
  IF slots = {} THEN <<>>
  ELSE LET s == CHOOSE s \in slots :
                  \A t \in slots : s[2] < t[2] \/ (s[2] = t[2] /\ s[1] <= t[1])
       IN  <<Reading(s[1], s[2], val[s])>> \o Collection(slots \ {s}, val)

----------------------------------------------------------------------------
(* Frames of runAnomalyDetection.  pc names the await the invocation is     *)
(* suspended at; the code between two awaits runs without interruption.     *)

IdleFrame ==
  [pc |-> "idle", units |-> <<>>, records |-> <<>>, historicalAverage |-> RInt(0),
   recentReadings |-> <<>>, dailyTotals |-> <<>>, buckets |-> <<>>, date |-> 0,
   detections |-> <<>>,
   anomaly |-> Null, created |-> {}, found |-> {}, foundStatus |-> {}, evaluated |-> {},
   afterOk |-> FALSE]

NoEntry == [caller |-> "none"]

StoreAwaits == {"findUnits", "findRecords", "findHistorical", "findOne", "save"}

Active(p) == run[p].pc # "idle"

\* the for-of loops of runAnomalyDetection, from the end of one
\* createAnomalyIfNotExists call to the next await (or to the end of the run)
\* entering the next bucket of the unit: its checks are run
EnterBucket(f) ==
  Only({[f EXCEPT !.buckets = Tail(@),
                  !.date = Head(f.buckets).date,
                  !.detections = r.detections,
                  !.evaluated = @ \cup {<<Head(f.units).id, Head(f.buckets).date, e>> :
                                          e \in r.evaluated}] :
        r \in {DetectBucket(Head(f.units), Head(f.buckets), f.historicalAverage,
                            f.recentReadings)}})

RECURSIVE Continue(_)
Continue(f) ==
  IF f.detections # <<>> THEN [f EXCEPT !.pc = "findOne"]
  ELSE IF f.buckets # <<>>
  THEN Only({Continue(g) : g \in {EnterBucket(f)}})
  ELSE IF Len(f.units) > 1
  THEN [f EXCEPT !.pc = "findRecords", !.units = Tail(@), !.historicalAverage = RInt(0),
                 !.recentReadings = <<>>, !.dailyTotals = <<>>, !.date = 0]
  ELSE [f EXCEPT !.pc = "done", !.units = <<>>, !.historicalAverage = RInt(0),
                 !.recentReadings = <<>>, !.dailyTotals = <<>>, !.date = 0]

\* the scheduler's callback: try { await runAnomalyDetection() } catch { console.error }
\* leaves the task scheduled whatever the outcome
CronCallback(outcome) == TRUE

\* triggerSyncAndDetect: res.status(200) after both awaits, next(error) from the catch
ManualResponse(outcome) == IF outcome = "ok" THEN "200" ELSE "next(error)"

\* a catch that logs and does not rethrow
RunCatchSwallow(error) == "ok"

\* runAnomalyDetection's catch: console.error, then throw error
RunCatch(error) == "rejected"

Entry(p, f, outcome, failedAt) ==
  [caller |-> p, outcome |-> outcome, failedAt |-> failedAt,
   unit |-> IF f.units = <<>> THEN 0 ELSE Head(f.units).id,
   unprocessed |-> IF f.units = <<>> THEN <<>> ELSE Tail(f.units),
   created |-> f.created, found |-> f.found, foundStatus |-> f.foundStatus,
   evaluated |-> f.evaluated,
   afterOk |-> f.afterOk,
   response |-> IF p = "manual" THEN ManualResponse(outcome) ELSE "logged"]

\* the invocation returns or rejects and its caller takes over
Settle(p, f, outcome, failedAt) ==
  /\ last' = Entry(p, f, outcome, failedAt)
  /\ okRuns' = (okRuns \/ outcome = "ok")
  /\ run' = [run EXCEPT ![p] = IdleFrame]
  /\ cronAlive' = IF p = "cron" THEN CronCallback(outcome) ELSE cronAlive

\* an await resumed with frame f
Resume(p, f) ==
  IF f.pc = "done"
  THEN Settle(p, f, "ok", "none")
  ELSE /\ run' = [run EXCEPT ![p] = f]
       /\ UNCHANGED <<last, okRuns, cronAlive>>

\* the frame of an invocation that starts now, suspended at pc
StartFrame(pc) == [IdleFrame EXCEPT !.pc = pc, !.afterOk = okRuns]

----------------------------------------------------------------------------
(* Actions of a detection run *)

\* cron.schedule(anomalySchedule, ...) fires
CronTick(exclusive) ==
  /\ cronAlive
  /\ ~Active("cron")
  /\ exclusive => \A p \in Procs : ~Active(p)
  /\ run' = [run EXCEPT !["cron"] = StartFrame("findUnits")]
  /\ last' = NoEntry
  /\ UNCHANGED <<tzOffset, solarUnits, energyRecords, expected, weatherVars, call, anomalies, clock, okRuns,
                 cronAlive, req>>

\* a trigger that enters runAnomalyDetection without awaiting the sync
TriggerDetectOnly(exclusive) ==
  /\ ~Active("manual")
  /\ exclusive => \A p \in Procs : ~Active(p)
  /\ run' = [run EXCEPT !["manual"] = StartFrame("findUnits")]
  /\ last' = NoEntry
  /\ UNCHANGED <<tzOffset, solarUnits, energyRecords, expected, weatherVars, call, anomalies, clock, okRuns,
                 cronAlive, req>>

\* POST trigger: triggerSyncAndDetect up to await syncEnergyGenerationRecords()
TriggerSyncAndDetect(exclusive) ==
  /\ ~Active("manual")
  /\ exclusive => \A p \in Procs : ~Active(p)
  /\ run' = [run EXCEPT !["manual"] = StartFrame("sync")]
  /\ last' = NoEntry
  /\ UNCHANGED <<tzOffset, solarUnits, energyRecords, expected, weatherVars, call, anomalies, clock, okRuns,
                 cronAlive, req>>

\* await syncEnergyGenerationRecords() resolves; runAnomalyDetection is entered
SyncDone ==
  /\ run["manual"].pc = "sync"
  /\ run' = [run EXCEPT !["manual"].pc = "findUnits"]
  /\ UNCHANGED <<tzOffset, solarUnits, energyRecords, expected, weatherVars, call, anomalies, clock, last, okRuns,
                 cronAlive, req>>

\* await syncEnergyGenerationRecords() rejects
SyncThrows ==
  /\ run["manual"].pc = "sync"
  /\ Settle("manual", run["manual"], "rejected", "sync")
  /\ UNCHANGED <<tzOffset, solarUnits, energyRecords, expected, weatherVars, call, anomalies, clock, req>>

\* await SolarUnit.find({ status: "ACTIVE" }) resolves
FindUnits(p) ==
  /\ run[p].pc = "findUnits"
  /\ LET ids == {u \in DOMAIN solarUnits : solarUnits[u].status = "ACTIVE"}
         docs == [i \in 1..Cardinality(ids) |->
                    LET u == CHOOSE u \in ids : Cardinality({v \in ids : v < u}) = i - 1
                    IN  [id |-> u, capacity |-> solarUnits[u].capacity]]
     IN  \E f \in {IF docs = <<>> THEN [run[p] EXCEPT !.pc = "done"]
                  ELSE [run[p] EXCEPT !.pc = "findRecords", !.units = docs]} : Resume(p, f)
  /\ UNCHANGED <<tzOffset, solarUnits, energyRecords, expected, weatherVars, call, anomalies, clock, req>>

\* await EnergyGenerationRecord.find(last 7 days) resolves
FindRecords(p) ==
  /\ run[p].pc = "findRecords"
  /\ \E records \in {RecentRecords(Head(run[p].units).id, Now)} :
       \E f \in {IF Len(records) = 0
                 THEN Continue(run[p])
                 ELSE [run[p] EXCEPT !.pc = "findHistorical", !.records = records]} :
          Resume(p, f)
  /\ UNCHANGED <<tzOffset, solarUnits, energyRecords, expected, weatherVars, call, anomalies, clock, req>>

\* await EnergyGenerationRecord.find(historical window) resolves
FindHistorical(p) ==
  /\ run[p].pc = "findHistorical"
  /\ \E historicalRecords \in {HistoricalRecords(Head(run[p].units).id, Now)} :
       \E loaded \in {[run[p] EXCEPT
                          !.historicalAverage = HistoricalAverage(historicalRecords),
                          !.recentReadings = RecentReadings(run[p].records),
                          !.dailyTotals = DailyTotals(run[p].records),
                          !.buckets = DailyTotals(run[p].records),
                          !.records = <<>>]} :
          \E f \in {Continue(loaded)} : Resume(p, f)
  /\ UNCHANGED <<tzOffset, solarUnits, energyRecords, expected, weatherVars, call, anomalies, clock, req>>

\* createAnomalyIfNotExists: await Anomaly.findOne(...) resolves; when it found nothing
\* the document is built, with detectedAt read now, up to await anomaly.save()
FindOne(p) ==
  /\ run[p].pc = "findOne"
  /\ \E existingAnomaly \in {FindExisting(Head(run[p].units).id,
                                            Head(run[p].detections).anomalyType,
                                            run[p].date)} :
       \E f \in {IF existingAnomaly = 0
                 THEN [run[p] EXCEPT !.pc = "save",
                                     !.anomaly = NewAnomaly(Head(run[p].units).id,
                                                            Head(run[p].detections),
                                                            run[p].date, clock)]
                 ELSE Continue([run[p] EXCEPT !.detections = Tail(@),
                                              !.found = @ \cup {existingAnomaly},
                                              !.foundStatus =
                                                @ \cup {anomalies[existingAnomaly].status}])} :
          Resume(p, f)
  /\ UNCHANGED <<tzOffset, solarUnits, energyRecords, expected, weatherVars, call, anomalies, clock, req>>

\* createAnomalyIfNotExists: await anomaly.save() resolves
Save(p) ==
  /\ run[p].pc = "save"
  /\ anomalies' = Append(anomalies, run[p].anomaly)
  /\ clock' = clock + 1
  /\ \E f \in {Continue([run[p] EXCEPT !.detections = Tail(@), !.anomaly = Null,
                                       !.created = @ \cup {Len(anomalies) + 1}])} :
       Resume(p, f)
  /\ UNCHANGED <<tzOffset, solarUnits, energyRecords, expected, weatherVars, call, req>>

\* a store call made by the run rejects: the catch of runAnomalyDetection logs and rethrows
StoreThrows(p) ==
  /\ run[p].pc \in StoreAwaits
  /\ Settle(p, run[p], RunCatch(run[p].pc), run[p].pc)
  /\ UNCHANGED <<tzOffset, solarUnits, energyRecords, expected, weatherVars, call, anomalies, clock, req>>

----------------------------------------------------------------------------
(* acknowledgeAnomaly and resolveAnomaly.  A request is suspended at        *)
(* findById, then at save; the code between the two runs in one step.       *)

MaxClock == 2       \* stored changes after which no further request is accepted

Slots == {1, 2}
UserIds == {"user_1", "user_2"}
NotesVals == {"", "replaced inverter"}

IdleReq ==
  [pc |-> "idle", op |-> "none", id |-> 0, userId |-> "null", notes |-> "",
   anomaly |-> Null, modified |-> {}]

InFlight(s) == req[s].pc \in {"findById", "save"}

\* Anomaly.findById(id): the document, or null
FindByIdResult(id) == IF id \in 1..Len(anomalies) THEN anomalies[id] ELSE Null

\* the guard with the status test left out
AcknowledgeGuardNone(anomaly) ==
  IF anomaly = Null THEN "404" ELSE "pass"

\* the guard testing for ACKNOWLEDGED in place of RESOLVED
AcknowledgeGuardOtherStatus(anomaly) ==
  IF anomaly = Null THEN "404"
  ELSE IF anomaly.status = "ACKNOWLEDGED" THEN "400"
  ELSE "pass"

\* acknowledgeAnomaly: the two throws before the mutation
AcknowledgeGuard(anomaly) ==
  IF anomaly = Null THEN "404"
  ELSE IF anomaly.status = "RESOLVED" THEN "400"
  ELSE "pass"

\* resolveAnomaly: the throw before the mutation
ResolveGuard(anomaly) == IF anomaly = Null THEN "404" ELSE "pass"

\* acknowledgeAnomaly: the assignments to the loaded document
Acknowledged(anomaly, userId, now) ==
  [anomaly EXCEPT !.status = "ACKNOWLEDGED", !.acknowledgedAt = now, !.acknowledgedBy = userId]

\* resolveAnomaly: the assignments to the loaded document
Resolved(anomaly, userId, notes, now) ==
  [anomaly EXCEPT !.status = "RESOLVED", !.resolvedAt = now, !.resolvedBy = userId,
                  !.details = IF notes # "" THEN [resolutionNotes |-> notes] @@ @ ELSE @]

\* the paths a document's setters marked modified: those whose value changed
ModifiedPaths(loaded, anomaly) == {f \in DOMAIN loaded : anomaly[f] # loaded[f]}

\* anomaly.save(): $set of the modified paths on the stored document
Written(stored, anomaly, modified) ==
  [f \in DOMAIN stored |-> IF f \in modified THEN anomaly[f] ELSE stored[f]]

\* the request ends: next(error) for a thrown AppError or store error,
\* res.status(200) otherwise
Respond(s, response) ==
  /\ req' = [req EXCEPT ![s] = IdleReq]
  /\ last' = [caller |-> req[s].op, id |-> req[s].id, response |-> response]

StartRequest(s, op, id, userId, notes) ==
  req' = [req EXCEPT ![s] = [IdleReq EXCEPT !.pc = "findById", !.op = op, !.id = id,
                                            !.userId = userId, !.notes = notes]]

\* PATCH acknowledge arrives: the handler up to await Anomaly.findById(id)
acknowledgeAnomaly(s, exclusive) ==
  /\ ~InFlight(s)
  /\ exclusive => \A t \in Slots : ~InFlight(t)
  /\ clock <= MaxClock
  /\ \E id \in 1..(Len(anomalies) + 1), userId \in UserIds :
       StartRequest(s, "acknowledge", id, userId, "")
  /\ UNCHANGED <<tzOffset, solarUnits, energyRecords, expected, weatherVars, call, anomalies, clock, run, last,
                 okRuns, cronAlive>>

\* PATCH resolve arrives: the handler up to await Anomaly.findById(id)
resolveAnomaly(s, exclusive) ==
  /\ ~InFlight(s)
  /\ exclusive => \A t \in Slots : ~InFlight(t)
  /\ clock <= MaxClock
  /\ \E id \in 1..(Len(anomalies) + 1), userId \in UserIds, notes \in NotesVals :
       StartRequest(s, "resolve", id, userId, notes)
  /\ UNCHANGED <<tzOffset, solarUnits, energyRecords, expected, weatherVars, call, anomalies, clock, run, last,
                 okRuns, cronAlive>>

\* await Anomaly.findById(id) resolves: the guards, then the assignments up to await save()
FindById(s) ==
  /\ req[s].pc = "findById"
  /\ \E anomaly \in {FindByIdResult(req[s].id)} :
       \E guard \in {IF req[s].op = "acknowledge" THEN AcknowledgeGuard(anomaly)
                     ELSE ResolveGuard(anomaly)} :
          IF guard # "pass"
          THEN Respond(s, guard)
          ELSE /\ \E changed \in {IF req[s].op = "acknowledge"
                                  THEN Acknowledged(anomaly, req[s].userId, clock)
                                  ELSE Resolved(anomaly, req[s].userId, req[s].notes, clock)} :
                    req' = [req EXCEPT ![s].pc = "save", ![s].anomaly = changed,
                                       ![s].modified = ModifiedPaths(anomaly, changed)]
               /\ UNCHANGED last
  /\ UNCHANGED <<tzOffset, solarUnits, energyRecords, expected, weatherVars, call, anomalies, clock, run, okRuns,
                 cronAlive>>

\* await anomaly.save() resolves: res.status(200).json(anomaly)
SaveDocument(s) ==
  /\ req[s].pc = "save"
  /\ anomalies' = [anomalies EXCEPT ![req[s].id] = Written(@, req[s].anomaly, req[s].modified)]
  /\ clock' = clock + 1
  /\ Respond(s, "200")
  /\ UNCHANGED <<tzOffset, solarUnits, energyRecords, expected, weatherVars, call, run, okRuns, cronAlive>>

\* findById or save rejects: the handler's catch calls next(error)
RequestThrows(s) ==
  /\ InFlight(s)
  /\ Respond(s, "next(error)")
  /\ UNCHANGED <<tzOffset, solarUnits, energyRecords, expected, weatherVars, call, anomalies, clock, run, okRuns,
                 cronAlive>>

----------------------------------------------------------------------------
(* What the stored input makes the detectors say, bucket by bucket *)

UnitDoc(u) == [id |-> u, capacity |-> solarUnits[u].capacity]

ActiveUnits == {u \in DOMAIN solarUnits : solarUnits[u].status = "ACTIVE"}

\* the calendar dates unit u has a bucket for
BucketDates(u) == Only({Range(DateKeys(records, {})) : records \in {RecentRecords(u, Now)}})

BucketChecks(u, date) ==
  Only({DetectBucket(UnitDoc(u), dayData, average, recentReadings) :
        dayData \in {DayData(RecentRecords(u, Now), date)},
        average \in {HistoricalAverage(HistoricalRecords(u, Now))},
        recentReadings \in {RecentReadings(RecentRecords(u, Now))}})

SensorFires(u, date) ==
  Only({detectSensorMalfunction(dayData.total, panelCapacity, DateOf(date),
                                recentReadings).anomalyDetected :
        dayData \in {DayData(RecentRecords(u, Now), date)},
        panelCapacity \in {PanelCapacity(UnitDoc(u))},
        recentReadings \in {RecentReadings(RecentRecords(u, Now))}})

CompleteFailureFires(u, date) ==
  Only({detectCompleteFailure(total, panelCapacity, DateOf(date), cloud).anomalyDetected :
        total \in {DayData(RecentRecords(u, Now), date).total},
        panelCapacity \in {PanelCapacity(UnitDoc(u))},
        cloud \in {RRound(DayData(RecentRecords(u, Now), date).avgCloud)}})

WeatherFires(u, date) ==
  Only({classifyWeatherImpact(dayData.total, expectedGeneration, RRound(dayData.avgCloud),
                              dayData.avgPrecip).anomalyDetected :
        dayData \in {DayData(RecentRecords(u, Now), date)},
        expectedGeneration \in {RMul(PanelCapacity(UnitDoc(u)), Rat(1, 2))}})

\* the dedup key of a stored record: unit, type, calendar day of the affected period
Triple(a) == <<a.solarUnitId, a.anomalyType, a.affectedPeriod.start.day>>

\* the keys for which a detector fires on the bucket of unit u for date
BucketTriples(u, date) ==
  UNION {{<<u, r.detections[i].anomalyType, StartOfDay(date).day>> :
            i \in 1..Len(r.detections)} :
         r \in {BucketChecks(u, date)}}

\* key and severity of the detections on the bucket of unit u for date
BucketRecords(u, date) ==
  UNION {{<<u, r.detections[i].anomalyType, StartOfDay(date).day, r.detections[i].severity>> :
            i \in 1..Len(r.detections)} :
         r \in {BucketChecks(u, date)}}

\* the keys for which a detector fires on the stored input
FiredTriples ==
  UNION {UNION {BucketTriples(u, date) : date \in BucketDates(u)} : u \in ActiveUnits}

\* the verdicts of the detectors on the stored readings, computed once for the
\* readings the runs work on
Expected ==
  Only({[triples |-> FiredTriples,
         sensor |-> {b \in buckets : SensorFires(b[1], b[2])},
         failure |-> {b \in buckets : CompleteFailureFires(b[1], b[2])},
         weather |-> {b \in buckets : WeatherFires(b[1], b[2])},
         records |-> UNION {BucketRecords(b[1], b[2]) : b \in buckets},
         readings |-> {u \in ActiveUnits : HistoricalRecords(u, Now) # <<>>},
         average |-> {u \in ActiveUnits :
                        RGt(HistoricalAverage(HistoricalRecords(u, Now)), RInt(0))}] :
        buckets \in {{b \in Units \X RecentDays :
                        b[1] \in ActiveUnits /\ b[2] \in BucketDates(b[1])}}})

RecordsOf(t) == {i \in 1..Len(anomalies) : Triple(anomalies[i]) = t}

\* the bucket date a stored record belongs to
RecordDate(a) == CHOOSE date \in RecentDays : StartOfDay(date) = a.affectedPeriod.start

Settled == last.caller # "none"

----------------------------------------------------------------------------
(* fetchWeatherFromOpenMeteo and its in-memory cache.  A coordinate is a     *)
(* number of thousandths of a degree; the provider's data is the time it    *)
(* answered at.                                                             *)

CACHE_TTL_MS == 10 * 60 * 1000

\* x.toFixed(2): the sign and the nearest number of hundredths (no input is a tie)
ToFixed2(milli) == [negative |-> milli < 0, hundredths |-> (Abs(milli) + 5) \div 10]

\* `${latitude.toFixed(2)},${longitude.toFixed(2)}`
CacheKey(latitude, longitude) == <<ToFixed2(latitude), ToFixed2(longitude)>>

LatitudeVals == {6927, 6931, 6936}
LongitudeVals == {-1, 1}
CacheKeys == {CacheKey(latitude, longitude) : latitude \in LatitudeVals, longitude \in LongitudeVals}
FetchSlots == {1, 2}
HttpStatuses == {200, 429, 500}

MaxFetches == 2
MaxTicks == 2

IdleFetch == [pc |-> "idle"]
NoReturn == [slot |-> 0]

WeatherAtStart ==
  /\ weatherCache = [k \in CacheKeys |-> Null]
  /\ weatherNow = 0
  /\ weatherCalls = [s \in FetchSlots |-> IdleFetch]
  /\ weatherLast = NoReturn
  /\ weatherStarted = 0
  /\ weatherTicks = 0

\* what ended a call: a cache hit, a response of some status, or a rejected await
Cause(kind, status) == [kind |-> kind, status |-> status]

\* the call in slot s ends: it returns data or throws
Return(s, latitude, longitude, cause, outcome, data, contacted) ==
  /\ weatherLast' = [slot |-> s, latitude |-> latitude, longitude |-> longitude,
                     cause |-> cause, outcome |-> outcome, data |-> data,
                     contacted |-> contacted]
  /\ weatherCalls' = [weatherCalls EXCEPT ![s] = IdleFetch]

\* response.status === 429 && cached
StaleFallback(status, cached) == status = 429 /\ cached # Null

\* cached && (Date.now() - cached.timestamp) < CACHE_TTL_MS
Fresh(cached) == cached # Null /\ weatherNow - cached.timestamp < CACHE_TTL_MS

\* fetchWeatherFromOpenMeteo(latitude, longitude) up to its return from the cache or
\* to await fetch(url)
FetchWeather(s) ==
  /\ weatherCalls[s].pc = "idle"
  /\ weatherStarted < MaxFetches
  /\ weatherStarted' = weatherStarted + 1
  /\ \E latitude \in LatitudeVals, longitude \in LongitudeVals :
       \E cached \in {weatherCache[CacheKey(latitude, longitude)]} :
          IF Fresh(cached)
          THEN Return(s, latitude, longitude, Cause("hit", 0), "data", cached.data, FALSE)
          ELSE /\ weatherCalls' = [weatherCalls EXCEPT ![s] =
                                     [pc |-> "fetch", latitude |-> latitude,
                                      longitude |-> longitude,
                                      cacheKey |-> CacheKey(latitude, longitude),
                                      cached |-> cached]]
               /\ UNCHANGED weatherLast
  /\ UNCHANGED <<weatherCache, weatherNow, weatherTicks>>
  /\ UNCHANGED <<tzOffset, solarUnits, energyRecords, expected, call, anomalies, clock, run, last,
                 okRuns, cronAlive, req>>

\* await fetch(url) resolves with a response of the given status
ProviderResponds(s) ==
  /\ weatherCalls[s].pc = "fetch"
  /\ \E status \in HttpStatuses :
       IF status = 200
       THEN /\ weatherCalls' = [weatherCalls EXCEPT ![s].pc = "json"]
            /\ UNCHANGED weatherLast
       ELSE IF StaleFallback(status, weatherCalls[s].cached)
       THEN Return(s, weatherCalls[s].latitude, weatherCalls[s].longitude,
                   Cause("response", status), "data",
                   weatherCalls[s].cached.data, TRUE)
       ELSE Return(s, weatherCalls[s].latitude, weatherCalls[s].longitude,
                   Cause("response", status), "error", Null, TRUE)
  /\ UNCHANGED <<weatherCache, weatherNow, weatherStarted, weatherTicks>>
  /\ UNCHANGED <<tzOffset, solarUnits, energyRecords, expected, call, anomalies, clock, run, last,
                 okRuns, cronAlive, req>>

\* await fetch(url) rejects: the provider cannot be reached
FetchRejects(s) ==
  /\ weatherCalls[s].pc = "fetch"
  /\ Return(s, weatherCalls[s].latitude, weatherCalls[s].longitude,
            Cause("fetch rejected", 0), "error", Null, TRUE)
  /\ UNCHANGED <<weatherCache, weatherNow, weatherStarted, weatherTicks>>
  /\ UNCHANGED <<tzOffset, solarUnits, energyRecords, expected, call, anomalies, clock, run, last,
                 okRuns, cronAlive, req>>

\* await response.json() resolves: the result is built, cached and returned
JsonResolves(s) ==
  /\ weatherCalls[s].pc = "json"
  /\ \E result \in {[time |-> weatherNow,
                     location |-> [latitude |-> weatherCalls[s].latitude,
                                   longitude |-> weatherCalls[s].longitude]]} :
       /\ weatherCache' = [weatherCache EXCEPT ![weatherCalls[s].cacheKey] =
                             [data |-> result, timestamp |-> weatherNow]]
       /\ Return(s, weatherCalls[s].latitude, weatherCalls[s].longitude,
                 Cause("response", 200), "data", result, TRUE)
  /\ UNCHANGED <<weatherNow, weatherStarted, weatherTicks>>
  /\ UNCHANGED <<tzOffset, solarUnits, energyRecords, expected, call, anomalies, clock, run, last,
                 okRuns, cronAlive, req>>

\* await response.json() rejects, or the body has no current block to read
JsonThrows(s) ==
  /\ weatherCalls[s].pc = "json"
  /\ Return(s, weatherCalls[s].latitude, weatherCalls[s].longitude,
            Cause("json rejected", 0), "error", Null, TRUE)
  /\ UNCHANGED <<weatherCache, weatherNow, weatherStarted, weatherTicks>>
  /\ UNCHANGED <<tzOffset, solarUnits, energyRecords, expected, call, anomalies, clock, run, last,
                 okRuns, cronAlive, req>>

\* time passes: one ms, or one ms less than the time-to-live
TimePasses ==
  /\ weatherTicks < MaxTicks
  /\ weatherTicks' = weatherTicks + 1
  /\ \E ms \in {1, CACHE_TTL_MS - 1} : weatherNow' = weatherNow + ms
  /\ UNCHANGED <<weatherCache, weatherCalls, weatherLast, weatherStarted>>
  /\ UNCHANGED <<tzOffset, solarUnits, energyRecords, expected, call, anomalies, clock, run, last,
                 okRuns, cronAlive, req>>

----------------------------------------------------------------------------
(* Specification: invocations one after another *)

Init ==
  /\ tzOffset \in TzOffsets
  /\ solarUnits \in [Units -> [status : {"ACTIVE"}, capacity : CapacityVals]]
  /\ \E recent \in SUBSET (Units \X RecentDays), old \in SUBSET (Units \X HistoricalDays) :
       /\ Cardinality(recent) + Cardinality(old) <= MaxReadings
       /\ \E val \in [recent -> ReadingVals],
             oldVal \in [old -> [energyGenerated : HistoricalEnergyVals,
                                 cloudCoverage : {50}, precipitation : {RInt(0)}]] :
            energyRecords = Collection(old, oldVal) \o Collection(recent, val)
  /\ anomalies = <<>>
  /\ clock = 1
  /\ run = [p \in Procs |-> IdleFrame]
  /\ last = NoEntry
  /\ okRuns = FALSE
  /\ cronAlive = TRUE
  /\ req = [s \in Slots |-> IdleReq]
  /\ expected = Expected
  /\ call = NoCall
  /\ WeatherAtStart

RunStep(p) ==
  \/ FindUnits(p)
  \/ FindRecords(p)
  \/ FindHistorical(p)
  \/ FindOne(p)
  \/ Save(p)
  \/ StoreThrows(p)

Next ==
  \/ CronTick(TRUE)
  \/ TriggerSyncAndDetect(TRUE)
  \/ SyncDone
  \/ SyncThrows
  \/ \E p \in Procs : RunStep(p)

Spec == Init /\ [][Next]_vars

----------------------------------------------------------------------------
(* Specification: the cron run and the manually triggered run may overlap *)

NextOverlap ==
  \/ CronTick(FALSE)
  \/ TriggerSyncAndDetect(FALSE)
  \/ SyncDone
  \/ SyncThrows
  \/ \E p \in Procs : RunStep(p)

MaxOverlapReadings == 1    \* energy generation records when runs overlap

InitOverlap == Init /\ Len(energyRecords) <= MaxOverlapReadings

SpecOverlap == InitOverlap /\ [][NextOverlap]_vars

----------------------------------------------------------------------------
(* Specification: the scheduled run with its two for-of loops taken in any  *)
(* order of the units and of a unit's daily buckets                         *)

\* the orderings of a sequence without repeated elements
Orderings(s) == {t \in [1..Len(s) -> Range(s)] : Range(t) = Range(s)}

\* await SolarUnit.find(...) resolves, the loop over solarUnits taking them in any order
FindUnitsAnyOrder(p) ==
  /\ run[p].pc = "findUnits"
  /\ \E units \in Orderings([i \in 1..Cardinality(ActiveUnits) |->
                                 UnitDoc(CHOOSE u \in ActiveUnits :
                                           Cardinality({v \in ActiveUnits : v < u}) = i - 1)]) :
       \E f \in {IF units = <<>> THEN [run[p] EXCEPT !.pc = "done"]
                 ELSE [run[p] EXCEPT !.pc = "findRecords", !.units = units]} : Resume(p, f)
  /\ UNCHANGED <<tzOffset, solarUnits, energyRecords, expected, weatherVars, call, anomalies, clock, req>>

\* await EnergyGenerationRecord.find(historical window) resolves, the loop over
\* dailyTotalsArray taking the buckets in any order
FindHistoricalAnyOrder(p) ==
  /\ run[p].pc = "findHistorical"
  /\ \E historicalRecords \in {HistoricalRecords(Head(run[p].units).id, Now)},
        buckets \in Orderings(DailyTotals(run[p].records)) :
       \E loaded \in {[run[p] EXCEPT
                          !.historicalAverage = HistoricalAverage(historicalRecords),
                          !.recentReadings = RecentReadings(run[p].records),
                          !.dailyTotals = DailyTotals(run[p].records),
                          !.buckets = buckets,
                          !.records = <<>>]} :
          \E f \in {Continue(loaded)} : Resume(p, f)
  /\ UNCHANGED <<tzOffset, solarUnits, energyRecords, expected, weatherVars, call, anomalies, clock, req>>

NextAnyOrder ==
  \/ CronTick(TRUE)
  \/ FindUnitsAnyOrder("cron")
  \/ FindRecords("cron")
  \/ FindHistoricalAnyOrder("cron")
  \/ FindOne("cron")
  \/ Save("cron")

SpecAnyOrder == Init /\ [][NextAnyOrder]_vars

----------------------------------------------------------------------------
(* Specification: the scheduled run over readings that share calendar days, *)
(* with cloud coverage and precipitation over their whole range             *)

MaxBucketReadings == 3

BucketReadingVals ==
  {[energyGenerated |-> RInt(1), cloudCoverage |-> 0, precipitation |-> RInt(0)],
   [energyGenerated |-> RInt(6), cloudCoverage |-> 80, precipitation |-> RInt(2)],
   [energyGenerated |-> RInt(1), cloudCoverage |-> 50, precipitation |-> RInt(1)]}

BucketReadings == {Reading(u, d, val) : u \in Units, d \in RecentDays, val \in BucketReadingVals}

InitBuckets ==
  /\ tzOffset \in TzOffsets
  /\ solarUnits \in [Units -> [status : {"ACTIVE"}, capacity : CapacityVals]]
  /\ energyRecords \in UNION {[1..n -> BucketReadings] : n \in 0..MaxBucketReadings}
  /\ anomalies = <<>>
  /\ clock = 1
  /\ run = [p \in Procs |-> IdleFrame]
  /\ last = NoEntry
  /\ okRuns = FALSE
  /\ cronAlive = TRUE
  /\ req = [s \in Slots |-> IdleReq]
  /\ expected = Expected
  /\ call = NoCall
  /\ WeatherAtStart

\* the scheduled run, its store calls succeeding
NextCron ==
  \/ CronTick(TRUE)
  \/ FindUnits("cron")
  \/ FindRecords("cron")
  \/ FindHistorical("cron")
  \/ FindOne("cron")
  \/ Save("cron")

SpecBuckets == InitBuckets /\ [][NextCron]_vars

----------------------------------------------------------------------------
(* Specification: the scheduled run over a unit with a long series of       *)
(* readings                                                                 *)

MaxUnitReadings == 11   \* readings of unit 1 in the trailing 7 days

SeriesBaseVals == {RInt(0), RInt(1)}
SeriesSpike == RInt(8)
SeriesTzOffsets == {0, 8}
SeriesCapacity == RInt(20)

\* reading j of unit 1: alternating between the two recent days, an hour after reading j - 1
SeriesReading(j, energy) ==
  [solarUnitId |-> 1,
   timestamp |-> [day |-> Today - 1 - (j % 2), ms |-> j * MsPerHour],
   energyGenerated |-> energy,
   cloudCoverage |-> 50,
   precipitation |-> RInt(0)]

\* n readings of the base value, reading k (if any) being the spike
Series(n, base, k) == [j \in 1..n |-> SeriesReading(j, IF j = k THEN SeriesSpike ELSE base)]

InitSeries ==
  /\ tzOffset \in SeriesTzOffsets
  /\ solarUnits = [u \in Units |-> [status |-> "ACTIVE", capacity |-> SeriesCapacity]]
  /\ \E n \in 0..MaxUnitReadings, base \in SeriesBaseVals :
       \E k \in 0..n :
         energyRecords = Series(n, base, k)
                         \o <<Reading(2, Today - 1, [energyGenerated |-> RInt(1),
                                                     cloudCoverage |-> 50,
                                                     precipitation |-> RInt(0)])>>
  /\ anomalies = <<>>
  /\ clock = 1
  /\ run = [p \in Procs |-> IdleFrame]
  /\ last = NoEntry
  /\ okRuns = FALSE
  /\ cronAlive = TRUE
  /\ req = [s \in Slots |-> IdleReq]
  /\ expected = Expected
  /\ call = NoCall
  /\ WeatherAtStart

SpecSeries == InitSeries /\ [][NextCron]_vars

----------------------------------------------------------------------------
(* Specification: the scheduled run over readings that make each detector   *)
(* fire at each of its severities                                           *)

KindEnergyVals == {RInt(-1), RInt(0), RInt(1), Rat(8, 5), Rat(17, 10), RInt(6)}
KindCloudVals == {50, 80, 100}
KindPrecipVals == {RInt(0), RInt(10)}
KindCapacityVals == {RInt(5), SeriesCapacity}

\* the stores: one reading of unit 1 yesterday, with or without an older reading of 2 kWh,
\* or a series of readings that is stuck or erratic
KindStores ==
  {old \o <<Reading(1, Today - 1, val)>> :
     old \in {<<>>, <<Reading(1, Today - 10, [energyGenerated |-> RInt(2), cloudCoverage |-> 50,
                                               precipitation |-> RInt(0)])>>},
     val \in [energyGenerated : KindEnergyVals, cloudCoverage : KindCloudVals,
              precipitation : KindPrecipVals]}
  \cup {Series(6, RInt(1), 0), Series(5, RInt(0), 1)}

InitKinds ==
  /\ tzOffset \in SeriesTzOffsets
  /\ solarUnits \in [Units -> [status : {"ACTIVE"}, capacity : KindCapacityVals]]
  /\ energyRecords \in KindStores
  /\ anomalies = <<>>
  /\ clock = 1
  /\ run = [p \in Procs |-> IdleFrame]
  /\ last = NoEntry
  /\ okRuns = FALSE
  /\ cronAlive = TRUE
  /\ req = [s \in Slots |-> IdleReq]
  /\ expected = Expected
  /\ call = NoCall
  /\ WeatherAtStart

SpecKinds == InitKinds /\ [][NextCron]_vars

----------------------------------------------------------------------------
(* Specifications of the acknowledge / resolve endpoints over a store that  *)
(* holds records the engine has created                                     *)

\* two records as createAnomalyIfNotExists stores them: a reading above capacity
StoredAnomalies ==
  LET detection == detectSensorMalfunction(RInt(6), RInt(5), DateOf(Today - 1), <<RInt(6)>>)
  IN  <<NewAnomaly(1, detection, Today - 1, 0), NewAnomaly(2, detection, Today - 1, 0)>>

InitApi ==
  /\ tzOffset \in TzOffsets
  /\ solarUnits \in [Units -> [status : {"ACTIVE"}, capacity : CapacityVals]]
  /\ energyRecords = <<Reading(1, Today - 1, [energyGenerated |-> RInt(6), cloudCoverage |-> 50,
                                              precipitation |-> RInt(0)]),
                       Reading(2, Today - 1, [energyGenerated |-> RInt(6), cloudCoverage |-> 50,
                                              precipitation |-> RInt(0)])>>
  /\ anomalies = StoredAnomalies
  /\ clock = 1
  /\ run = [p \in Procs |-> IdleFrame]
  /\ last = NoEntry
  /\ okRuns = TRUE
  /\ cronAlive = TRUE
  /\ req = [s \in Slots |-> IdleReq]
  /\ expected = Expected
  /\ call = NoCall
  /\ WeatherAtStart

RequestStep(s, exclusive) ==
  \/ acknowledgeAnomaly(s, exclusive)
  \/ resolveAnomaly(s, exclusive)
  \/ FindById(s)
  \/ SaveDocument(s)
  \/ RequestThrows(s)

\* a store that holds the record of unit 1 and not yet that of unit 2
InitRunsAndRequests ==
  /\ tzOffset = 0
  /\ solarUnits \in [Units -> [status : {"ACTIVE"}, capacity : CapacityVals]]
  /\ energyRecords = <<Reading(1, Today - 1, [energyGenerated |-> RInt(6), cloudCoverage |-> 50,
                                              precipitation |-> RInt(0)]),
                       Reading(2, Today - 1, [energyGenerated |-> RInt(6), cloudCoverage |-> 50,
                                              precipitation |-> RInt(0)])>>
  /\ anomalies = SubSeq(StoredAnomalies, 1, 1)
  /\ clock = 1
  /\ run = [p \in Procs |-> IdleFrame]
  /\ last = NoEntry
  /\ okRuns = FALSE
  /\ cronAlive = TRUE
  /\ req = [s \in Slots |-> IdleReq]
  /\ expected = Expected
  /\ call = NoCall
  /\ WeatherAtStart

\* scheduled runs with acknowledge and resolve requests arriving in between and during them
NextRunsAndRequests ==
  \/ NextCron
  \/ acknowledgeAnomaly(1, TRUE)
  \/ resolveAnomaly(1, TRUE)
  \/ FindById(1)
  \/ SaveDocument(1)

SpecRunsAndRequests == InitRunsAndRequests /\ [][NextRunsAndRequests]_vars

\* requests served one after another
NextApiSeq == \E s \in Slots : RequestStep(s, TRUE)

SpecApiSeq == InitApi /\ [][NextApiSeq]_vars

\* requests served concurrently
NextApi == \E s \in Slots : RequestStep(s, FALSE)

SpecApi == InitApi /\ [][NextApi]_vars

----------------------------------------------------------------------------
(* Specification: the exported detectors called on their own, as any        *)
(* importer of the module may call them                                     *)

MaxRecent == 7

\* the instant at which the local wall clock of this process shows ms of day
AtLocal(day, ms) ==
  LET m == ms - tzOffset * MsPerHour
  IN  [day |-> day + (m \div MsPerDay), ms |-> m % MsPerDay]

\* 00:00, 05:59:59.999, 06:00, 14:00, 18:00 and 18:00:00.001 of the local day
DetectTimestamps ==
  {AtLocal(Today, h[1] * MsPerHour + h[2]) :
     h \in {<<0, 0>>, <<6, -1>>, <<6, 0>>, <<14, 0>>, <<18, 0>>, <<18, 1>>}}

DetectEnergyVals ==
  {RInt(-1), Rat(-1, 100), RInt(0), Rat(1, 50), Rat(1, 40), Rat(21, 4), RInt(6)}
DetectCapacityVals == {RInt(1), RInt(5)}
DetectCloudVals == {25, 89, 90, 100}
DetectReadingVals == {RInt(0), RInt(5)}
RecentReadingsVals == UNION {[1..n -> DetectReadingVals] : n \in 0..MaxRecent}
WeatherEnergyVals == {RInt(0), RInt(2), RInt(6)}
WeatherExpectedVals == {RInt(-1), RInt(0), RInt(6)}
WeatherCloudVals == 0..100
WeatherPrecipVals == {RInt(0), Rat(1, 2), RInt(1), RInt(3), RInt(4), RInt(5), RInt(100)}

\* the calls before they are evaluated
SensorCalls ==
  [fn : {"detectSensorMalfunction"}, energyGenerated : DetectEnergyVals,
   panelCapacity : DetectCapacityVals, timestamp : DetectTimestamps,
   recentReadings : RecentReadingsVals, result : {Null}]
FailureCalls ==
  [fn : {"detectCompleteFailure"}, energyGenerated : DetectEnergyVals,
   panelCapacity : DetectCapacityVals, timestamp : DetectTimestamps,
   cloudCoverage : DetectCloudVals, result : {Null}]
WeatherCalls ==
  [fn : {"classifyWeatherImpact"}, energyGenerated : WeatherEnergyVals,
   expectedGeneration : WeatherExpectedVals, cloudCoverage : WeatherCloudVals,
   precipitation : WeatherPrecipVals, result : {Null}]

DegradationCurrentVals ==
  {RInt(-10), RInt(0), Rat(11, 25), RInt(50), RInt(70), RInt(75), RInt(76), RInt(80), RInt(84),
   RInt(85), RInt(86), RInt(100), RInt(110)}
DegradationAverageVals == {RInt(-1), RInt(0), Rat(17, 25), RInt(100)}
DegradationThresholdVals == {10, DefaultDegradationThreshold, 30}
DegradationCalls ==
  [fn : {"detectPanelDegradation"}, currentGeneration : DegradationCurrentVals,
   historicalAverage : DegradationAverageVals, degradationThreshold : DegradationThresholdVals,
   result : {Null}]

InitDetect ==
  /\ tzOffset \in TzOffsets
  /\ solarUnits = [u \in Units |-> [status |-> "ACTIVE", capacity |-> RInt(5)]]
  /\ energyRecords = <<>>
  /\ anomalies = <<>>
  /\ clock = 1
  /\ run = [p \in Procs |-> IdleFrame]
  /\ last = NoEntry
  /\ okRuns = FALSE
  /\ cronAlive = TRUE
  /\ req = [s \in Slots |-> IdleReq]
  /\ expected = Expected
  /\ call \in SensorCalls \cup FailureCalls \cup WeatherCalls \cup DegradationCalls
  /\ WeatherAtStart

\* detectSensorMalfunction(energyGenerated, panelCapacity, timestamp, recentReadings) returns
CallDetectSensorMalfunction ==
  /\ call.fn = "detectSensorMalfunction"
  /\ call.result = Null
  /\ call' = [call EXCEPT !.result =
                detectSensorMalfunction(call.energyGenerated, call.panelCapacity,
                                        call.timestamp, call.recentReadings)]
  /\ UNCHANGED <<tzOffset, solarUnits, energyRecords, expected, weatherVars, anomalies, clock, run, last,
                 okRuns, cronAlive, req>>

\* detectCompleteFailure(energyGenerated, panelCapacity, timestamp, cloudCoverage) returns
CallDetectCompleteFailure ==
  /\ call.fn = "detectCompleteFailure"
  /\ call.result = Null
  /\ call' = [call EXCEPT !.result =
                detectCompleteFailure(call.energyGenerated, call.panelCapacity,
                                      call.timestamp, call.cloudCoverage)]
  /\ UNCHANGED <<tzOffset, solarUnits, energyRecords, expected, weatherVars, anomalies, clock, run, last,
                 okRuns, cronAlive, req>>

\* classifyWeatherImpact(energyGenerated, expectedGeneration, cloudCoverage, precipitation)
\* returns; the record keeps the three locals of the score, which a non-detection leaves out
CallClassifyWeatherImpact ==
  /\ call.fn = "classifyWeatherImpact"
  /\ call.result = Null
  /\ call' = [fn |-> call.fn,
              energyGenerated |-> call.energyGenerated,
              expectedGeneration |-> call.expectedGeneration,
              cloudCoverage |-> call.cloudCoverage,
              precipitation |-> call.precipitation,
              cloudImpact |-> cloudImpact(call.cloudCoverage),
              rainImpact |-> rainImpact(call.precipitation),
              weatherSeverity |-> weatherSeverityOf(call.cloudCoverage, call.precipitation),
              result |-> classifyWeatherImpact(call.energyGenerated, call.expectedGeneration,
                                               call.cloudCoverage, call.precipitation)]
  /\ UNCHANGED <<tzOffset, solarUnits, energyRecords, expected, weatherVars, anomalies, clock, run, last,
                 okRuns, cronAlive, req>>

\* detectPanelDegradation(currentGeneration, historicalAverage, degradationThreshold) returns
CallDetectPanelDegradation ==
  /\ call.fn = "detectPanelDegradation"
  /\ call.result = Null
  /\ call' = [call EXCEPT !.result =
                detectPanelDegradation(call.currentGeneration, call.historicalAverage,
                                       call.degradationThreshold)]
  /\ UNCHANGED <<tzOffset, solarUnits, energyRecords, expected, weatherVars, anomalies, clock, run, last,
                 okRuns, cronAlive, req>>

NextDetect ==
  \/ CallDetectSensorMalfunction
  \/ CallDetectCompleteFailure
  \/ CallClassifyWeatherImpact
  \/ CallDetectPanelDegradation

SpecDetect == InitDetect /\ [][NextDetect]_vars

----------------------------------------------------------------------------
(* Specification: calls of fetchWeatherFromOpenMeteo, up to two at a time *)

InitWeather ==
  /\ tzOffset = 0
  /\ solarUnits = [u \in Units |-> [status |-> "ACTIVE", capacity |-> RInt(5)]]
  /\ energyRecords = <<>>
  /\ anomalies = <<>>
  /\ clock = 1
  /\ run = [p \in Procs |-> IdleFrame]
  /\ last = NoEntry
  /\ okRuns = FALSE
  /\ cronAlive = TRUE
  /\ req = [s \in Slots |-> IdleReq]
  /\ expected = Expected
  /\ call = NoCall
  /\ WeatherAtStart

NextWeather ==
  \/ \E s \in FetchSlots :
       \/ FetchWeather(s)
       \/ ProviderResponds(s)
       \/ FetchRejects(s)
       \/ JsonResolves(s)
       \/ JsonThrows(s)
  \/ TimePasses

SpecWeather == InitWeather /\ [][NextWeather]_vars

----------------------------------------------------------------------------
(* C1: a second invocation over the same readings, units and store creates  *)
(* no record, and after a completed invocation the store holds exactly one  *)
(* record for every (unit, type, day) a detector fired for, and none else.  *)
C1_Idempotent ==
  /\ \A i \in 1..Len(anomalies) : Triple(anomalies[i]) \in expected.triples
  /\ okRuns => \A t \in expected.triples : Cardinality(RecordsOf(t)) = 1
  /\ \A p \in Procs : run[p].afterOk => run[p].created = {}
  /\ (Settled /\ last.afterOk) => last.created = {}

C1_Witness ==
  /\ Settled /\ last.afterOk /\ last.outcome = "ok"
  /\ Len(anomalies) >= 2
  /\ Len(anomalies) = Cardinality(expected.triples)

(* C2: in every reachable state of the store, also when the cron run and   *)
(* the manually triggered run interleave their findOne and save steps, at   *)
(* most one record exists for any (unit, type, calendar day).               *)
C2_AtMostOnePerKey ==
  \A i, j \in 1..Len(anomalies) : Triple(anomalies[i]) = Triple(anomalies[j]) => i = j

(* C3: when the sensor check fires for a bucket, no other detector is       *)
(* evaluated for that bucket and the invocation creates only a              *)
(* SENSOR_MALFUNCTION record for it.                                        *)
SensorPrecedence(h) ==
  \A e \in h.evaluated :
     <<e[1], e[2]>> \in expected.sensor =>
       /\ e[3] = "SENSOR_MALFUNCTION"
       /\ \A i \in h.created :
            (anomalies[i].solarUnitId = e[1] /\ RecordDate(anomalies[i]) = e[2])
              => anomalies[i].anomalyType = "SENSOR_MALFUNCTION"

C3_SensorPrecedence ==
  /\ \A p \in Procs : SensorPrecedence(run[p])
  /\ Settled => SensorPrecedence(last)

\* a bucket whose sensor check fired, whose weather check would fire too, persisted
C3_Witness ==
  /\ Settled /\ last.outcome = "ok"
  /\ \E i \in last.created :
       /\ anomalies[i].anomalyType = "SENSOR_MALFUNCTION"
       /\ LET u == anomalies[i].solarUnitId
              day == DayData(RecentRecords(u, Now), RecordDate(anomalies[i]))
          IN  classifyWeatherImpact(day.total, RMul(PanelCapacity(UnitDoc(u)), Rat(1, 2)),
                                    RRound(day.avgCloud), day.avgPrecip).anomalyDetected

(* C4: when a store call made for one solar unit throws, every remaining    *)
(* active unit is still processed by the same invocation.                   *)
C4_RemainingUnitsProcessed ==
  (Settled /\ last.failedAt \in {"findRecords", "findHistorical", "findOne", "save"})
    => last.unprocessed = <<>>

(* C5: when enumerating the active units fails, the invocation rejects, it  *)
(* has created no record, the cron task stays scheduled and can fire again, *)
(* and the manual trigger forwards the error instead of answering 200.      *)
C5_RunLevelFailure ==
  (Settled /\ last.failedAt = "findUnits") =>
    /\ last.outcome = "rejected"
    /\ last.created = {}
    /\ cronAlive
    /\ ENABLED CronTick(TRUE)
    /\ (last.caller = "manual" => last.response = "next(error)")
    /\ (last.caller = "cron" => last.response = "logged")

C5_Witness ==
  Settled /\ last.failedAt = "findUnits" /\ last.caller = "manual" /\ okRuns

\* the step ends request s otherwise than by a rejected store call
Answered(s) == req[s].pc # "idle" /\ req'[s] = IdleReq /\ last'.response # "next(error)"

(* C6: with acknowledge and resolve requests served one after another, the  *)
(* status of a record only moves forward, ACTIVE < ACKNOWLEDGED < RESOLVED. *)
C6_StatusForward ==
  [][\A i \in 1..Len(anomalies) :
       /\ i <= Len(anomalies')
       /\ StatusRank(anomalies'[i].status) >= StatusRank(anomalies[i].status)]_vars

\* a record that was acknowledged and then resolved
C6_Witness ==
  \E i \in 1..Len(anomalies) :
     /\ anomalies[i].status = "RESOLVED"
     /\ anomalies[i].acknowledgedAt # 0
     /\ last = [caller |-> "resolve", id |-> i, response |-> "200"]

(* C7: when an acknowledge and a resolve request for one record interleave, *)
(* a record stored as RESOLVED is never afterwards stored as ACKNOWLEDGED.  *)
C7_NoReAcknowledge ==
  [][\A i \in 1..Len(anomalies) :
       anomalies[i].status = "RESOLVED" => anomalies'[i].status # "ACKNOWLEDGED"]_vars

(* C8: acknowledge on a RESOLVED record ends with AppError 400 and leaves   *)
(* the record as it was; on an unknown id it ends with AppError 404 and     *)
(* changes no record.                                                       *)
C8_AcknowledgeRejected ==
  [][\A s \in Slots :
       (req[s].pc = "findById" /\ req[s].op = "acknowledge" /\ req'[s] # req[s]
        /\ ~(req'[s] = IdleReq /\ last'.response = "next(error)")) =>
         /\ req[s].id \notin 1..Len(anomalies) =>
              /\ Answered(s)
              /\ last' = [caller |-> "acknowledge", id |-> req[s].id, response |-> "404"]
              /\ anomalies' = anomalies
         /\ (req[s].id \in 1..Len(anomalies) /\ anomalies[req[s].id].status = "RESOLVED") =>
              /\ Answered(s)
              /\ last' = [caller |-> "acknowledge", id |-> req[s].id, response |-> "400"]
              /\ anomalies' = anomalies]_vars

\* an acknowledge request just refused on a record that stays RESOLVED
C8_Witness ==
  /\ last.caller = "acknowledge" /\ last.response = "400"
  /\ anomalies[last.id].status = "RESOLVED"
  /\ anomalies[last.id].acknowledgedAt = 0

(* C9: the degradation check is evaluated for a bucket only when no         *)
(* critical detection fired for it and the unit has a positive historical   *)
(* average; no DEGRADATION record is created for a bucket whose complete-   *)
(* failure check fired, nor for a unit without historical readings.         *)
DegradationGated(h) ==
  /\ \A e \in h.evaluated :
       e[3] = "DEGRADATION" =>
         /\ <<e[1], e[2]>> \notin expected.sensor
         /\ <<e[1], e[2]>> \notin expected.failure
         /\ e[1] \in expected.average
  /\ \A i \in h.created :
       anomalies[i].anomalyType = "DEGRADATION" =>
         /\ <<anomalies[i].solarUnitId, RecordDate(anomalies[i])>> \notin expected.failure
         /\ anomalies[i].solarUnitId \in expected.readings

C9_DegradationGated ==
  /\ \A p \in Procs : DegradationGated(run[p])
  /\ Settled => DegradationGated(last)

\* a bucket with a fired complete failure and a degraded total against its history
C9_Witness ==
  /\ Settled /\ last.outcome = "ok"
  /\ \E i \in last.created :
       /\ anomalies[i].anomalyType = "COMPLETE_FAILURE"
       /\ LET u == anomalies[i].solarUnitId
          IN  detectPanelDegradation(
                DayData(RecentRecords(u, Now), RecordDate(anomalies[i])).total,
                HistoricalAverage(HistoricalRecords(u, Now)),
                DefaultDegradationThreshold).anomalyDetected

(* C10: a persistence step that finds a record for its key changes nothing  *)
(* in the store; one that finds none adds exactly one record, ACTIVE, whose *)
(* affected period is the whole calendar day, and leaves the others as they *)
(* were.                                                                    *)
WholeDay(period) ==
  /\ period.start.day = period.end.day
  /\ period.start.ms = 0
  /\ period.end.ms = MsPerDay - 1

\* the step is process p's await rejecting
Threw(p) == last' # last /\ last'.caller = p /\ last'.outcome = "rejected"

PersistenceStep(p) ==
  LET key == <<Head(run[p].units).id, Head(run[p].detections).anomalyType, run[p].date>>
      existing == FindExisting(key[1], key[2], key[3])
      n == Len(anomalies')
  IN
  /\ (run[p].pc = "findOne" /\ run'[p] # run[p] /\ ~Threw(p)) =>
       /\ anomalies' = anomalies
       /\ existing # 0 <=> run'[p].pc # "save"
  /\ (run[p].pc = "save" /\ run'[p] # run[p] /\ ~Threw(p)) =>
       /\ existing = 0
       /\ n = Len(anomalies) + 1
       /\ anomalies'[n].status = "ACTIVE"
       /\ WholeDay(anomalies'[n].affectedPeriod)
       /\ Triple(anomalies'[n]) = <<key[1], key[2], StartOfDay(key[3]).day>>

C10_Persistence ==
  [][/\ \A p \in Procs : PersistenceStep(p)
     /\ \A i \in 1..Len(anomalies) : i <= Len(anomalies') /\ anomalies'[i] = anomalies[i]
     /\ anomalies' # anomalies => \E p \in Procs : run[p].pc = "save" /\ run'[p] # run[p]]_vars

\* one invocation that found a record for one key and created one for another
C10_Witness ==
  Settled /\ last.outcome = "ok" /\ last.created # {} /\ last.found # {}

(* C11: when a run is interrupted between two store operations and a full  *)
(* run follows on the same input, the records the interrupted run persisted *)
(* are still there unmodified (the full run finds them), and the store ends *)
(* with exactly one record for every key a detector fires for, as a single  *)
(* uninterrupted run would leave it.                                        *)
C11_InterruptedThenFull ==
  /\ []((Settled /\ last.outcome = "ok") =>
          /\ {Triple(anomalies[i]) : i \in 1..Len(anomalies)} = expected.triples
          /\ \A t \in expected.triples : Cardinality(RecordsOf(t)) = 1
          /\ last.found \cap last.created = {}
          /\ last.found \cup last.created = 1..Len(anomalies))
  /\ [][\A i \in 1..Len(anomalies) : i <= Len(anomalies') /\ anomalies'[i] = anomalies[i]]_vars

\* a first completed run that found records left by an interrupted one and added the rest
C11_Witness ==
  /\ Settled /\ last.outcome = "ok" /\ ~last.afterOk
  /\ last.found # {} /\ last.created # {}
  /\ Cardinality(last.found) + Cardinality(last.created) = Cardinality(expected.triples)

\* the place of a detector in the order of checks 2 to 4
CheckOrder(type) ==
  CASE type = "COMPLETE_FAILURE" -> 1 [] type = "WEATHER_RELATED" -> 2
    [] type = "DEGRADATION" -> 3 [] OTHER -> 0

SameBucket(a, b) ==
  a.solarUnitId = b.solarUnitId /\ a.affectedPeriod.start = b.affectedPeriod.start

NotStoppedByFailure(h) ==
  \A e \in h.evaluated :
     <<e[1], e[2]>> \notin expected.sensor =>
       /\ <<e[1], e[2], "COMPLETE_FAILURE">> \in h.evaluated
       /\ <<e[1], e[2], "WEATHER_RELATED">> \in h.evaluated

Quadruple(a) == <<a.solarUnitId, a.anomalyType, a.affectedPeriod.start.day, a.severity>>

(* C13: the records present after a run do not depend on the order in which *)
(* the units, or the daily buckets of a unit, are processed: whatever the    *)
(* order, a completed run leaves the same set of (unit, type, day,          *)
(* severity), the one the detectors give bucket by bucket.                  *)
C13_OrderIndependent ==
  (Settled /\ last.outcome = "ok") =>
    {Quadruple(anomalies[i]) : i \in 1..Len(anomalies)} = expected.records

\* a completed run that handled the second unit before the first
C13_Witness ==
  /\ Settled /\ last.outcome = "ok"
  /\ last.created = {1, 2}
  /\ anomalies[1].solarUnitId > anomalies[2].solarUnitId

----------------------------------------------------------------------------
\* a detector call that has returned
Returned(fn) == call.fn = fn /\ call.result # Null

(* C14: for every input with energyGenerated < 0, whatever the capacity,    *)
(* the timestamp and recentReadings, detectSensorMalfunction returns        *)
(* anomalyDetected = true with severity CRITICAL and confidence exactly 1.  *)
C14_NegativeIsCritical ==
  (Returned("detectSensorMalfunction") /\ RLt(call.energyGenerated, RInt(0))) =>
    /\ call.result.anomalyDetected
    /\ call.result.severity = "CRITICAL"
    /\ call.result.confidence = RInt(1)

\* a negative reading by day, above no capacity, whose other fired issue is the HIGH one
C14_Witness ==
  /\ Returned("detectSensorMalfunction")
  /\ RLt(call.energyGenerated, RInt(0))
  /\ isDaytime(call.timestamp)
  /\ Len(call.result.details.issues) = 2
  /\ call.result.details.issues[1].severity = "HIGH"
  /\ call.result.severity = "CRITICAL"
  /\ call.result.confidence = RInt(1)

\* the returned detection lists an issue of this name
IssueReported(name) ==
  /\ call.result.anomalyDetected
  /\ \E i \in 1..Len(call.result.details.issues) : call.result.details.issues[i].issue = name

(* C15: detectSensorMalfunction reports the capacity issue exactly when     *)
(* energyGenerated > panelCapacity * 1.05; a reading equal to               *)
(* panelCapacity * 1.05 does not produce it.                                *)
C15_CapacityStrict ==
  Returned("detectSensorMalfunction") =>
    (IssueReported("Generation exceeds panel capacity")
       <=> RGt(call.energyGenerated, RMul(call.panelCapacity, Rat(105, 100))))

\* a reading of exactly panelCapacity * 1.05 that came back without the issue
C15_Witness ==
  /\ Returned("detectSensorMalfunction")
  /\ call.energyGenerated = RMul(call.panelCapacity, Rat(105, 100))
  /\ ~IssueReported("Generation exceeds panel capacity")

(* C16: when at least one of the five checks fires, the severity returned   *)
(* is the highest severity among the fired issues, the confidence is the    *)
(* largest confidence among them and details.issues is the fired issues,    *)
(* none left out and none added; when no check fires the call returns a     *)
(* non-detection.                                                           *)
C16_HighestOfFired ==
  Returned("detectSensorMalfunction") =>
    LET fired == SensorIssues(call.energyGenerated, call.panelCapacity, call.timestamp,
                              call.recentReadings)
        idx == 1..Len(fired)
    IN  IF fired = <<>>
        THEN call.result = NoDetection
        ELSE /\ call.result.anomalyDetected
             /\ call.result.details.issues = fired
             /\ \E i \in idx : fired[i].severity = call.result.severity
             /\ \A i \in idx :
                  SeverityIndex(fired[i].severity) <= SeverityIndex(call.result.severity)
             /\ \E i \in idx : fired[i].confidence = call.result.confidence
             /\ \A i \in idx : RLe(fired[i].confidence, call.result.confidence)

\* two issues fired, the first of them MEDIUM and the later one CRITICAL
C16_Witness ==
  /\ Returned("detectSensorMalfunction")
  /\ call.result.anomalyDetected
  /\ Len(call.result.details.issues) = 2
  /\ call.result.details.issues[1].severity = "MEDIUM"
  /\ call.result.details.issues[2].severity = "CRITICAL"
  /\ call.result.severity = "CRITICAL"
  /\ call.result.confidence = call.result.details.issues[2].confidence

(* C17: detectSensorMalfunction reports the stuck-sensor issue (HIGH,       *)
(* confidence 0.90) if and only if recentReadings has at least 6 entries,   *)
(* its last 6 entries are all identical and that common value is not zero.  *)
C17_StuckIffLastSix ==
  Returned("detectSensorMalfunction") =>
    /\ IssueReported("Sensor reading stuck at same value")
         <=> /\ Len(call.recentReadings) >= 6
             /\ \E v \in Range(LastK(call.recentReadings, 6)) :
                  /\ Range(LastK(call.recentReadings, 6)) = {v}
                  /\ v # RInt(0)
    /\ call.result.anomalyDetected =>
         \A i \in 1..Len(call.result.details.issues) :
           call.result.details.issues[i].issue = "Sensor reading stuck at same value" =>
             /\ call.result.details.issues[i].severity = "HIGH"
             /\ call.result.details.issues[i].confidence = Rat(9, 10)

\* the local time of day of the timestamp lies in 06:00..18:00, both ends included
InDaylightWindow(timestamp) ==
  /\ 6 * MsPerHour <= Local(timestamp).ms
  /\ Local(timestamp).ms <= 18 * MsPerHour

C19_SeverityClamped ==
  Returned("classifyWeatherImpact") =>
    /\ RLe(call.weatherSeverity, Rat(9, 10))
    /\ call.result.anomalyDetected =>
         /\ call.result.details.weatherSeverity = call.weatherSeverity
         /\ RLe(call.result.details.expectedReduction, RInt(90))

\* full cloud and 100 mm of rain score exactly 0.9
C19_Witness ==
  /\ Returned("classifyWeatherImpact")
  /\ call.cloudCoverage = 100
  /\ call.precipitation = RInt(100)
  /\ call.weatherSeverity = Rat(9, 10)

(* C20 as stated: in the weather severity score the cloud term is at most   *)
(* 0.63, the precipitation term at most 0.80 and their sum is capped at     *)
(* 0.9.                                                                     *)
C20_CloudTermAtMost63 ==
  Returned("classifyWeatherImpact") =>
    /\ RLe(call.cloudImpact, Rat(63, 100))
    /\ RLe(call.rainImpact, Rat(8, 10))
    /\ RLe(call.weatherSeverity, Rat(9, 10))

(* C20 amended: in the weather severity score the cloud term is at most     *)
(* 0.70, the precipitation term at most 0.80 and their sum is capped at     *)
(* 0.9: the score is the smaller of the sum and 0.9.                        *)
C20_TermsBounded ==
  Returned("classifyWeatherImpact") =>
    /\ RLe(call.cloudImpact, Rat(7, 10))
    /\ RLe(call.rainImpact, Rat(8, 10))
    /\ call.weatherSeverity = RMin(Rat(9, 10), RAdd(call.cloudImpact, call.rainImpact))

\* both terms at their largest, 0.7 and 0.8, and the score cut from 1.5 to 0.9
C20_Witness ==
  /\ Returned("classifyWeatherImpact")
  /\ call.cloudImpact = Rat(7, 10)
  /\ call.rainImpact = Rat(8, 10)
  /\ call.weatherSeverity = Rat(9, 10)
  /\ call.precipitation = RInt(5)

\* actualReduction of the returned call, from its arguments
ActualReduction ==
  IF RGt(call.expectedGeneration, RInt(0))
  THEN RMul(RDiv(RSub(call.expectedGeneration, call.energyGenerated), call.expectedGeneration),
            RInt(100))
  ELSE RInt(0)

\* expectedReduction of the returned call
ExpectedReduction == RMul(call.weatherSeverity, RInt(100))

Degradation(currentGeneration, historicalAverage) ==
  RSub(RInt(100), RMul(RDiv(currentGeneration, historicalAverage), RInt(100)))

RECURSIVE SumOver(_, _)
SumOver(idx, vals) ==
  IF idx = {} THEN RInt(0)
  ELSE LET i == CHOOSE i \in idx : TRUE
       IN  RAdd(vals[i], SumOver(idx \ {i}, vals))

\* the stored readings of unit u in the trailing 7 days, by index
SevenDayReadings(u) ==
  {i \in 1..Len(energyRecords) :
     /\ energyRecords[i].solarUnitId = u
     /\ TLe(DaysAgo(Now, 7), energyRecords[i].timestamp)}

(* C23: for every daily bucket built in a run, each 7-day reading of the    *)
(* unit belongs to exactly one bucket, that of its calendar date; the       *)
(* bucket's total is the sum of its readings' energyGenerated and its       *)
(* average cloud coverage and precipitation are the arithmetic means of     *)
(* its readings' cloudCoverage and precipitation, cloudCoverage = 0         *)
(* included.                                                                *)
C23_BucketsAreSumsAndMeans ==
  \A p \in Procs :
    run[p].dailyTotals # <<>> =>
      LET dailyTotals == run[p].dailyTotals
          mine == SevenDayReadings(Head(run[p].units).id)
      IN  /\ \A i \in mine :
               Cardinality({k \in 1..Len(dailyTotals) :
                              dailyTotals[k].date = energyRecords[i].timestamp.day}) = 1
          /\ \A k \in 1..Len(dailyTotals) :
               LET day == {i \in mine : energyRecords[i].timestamp.day = dailyTotals[k].date}
               IN  /\ day # {}
                   /\ dailyTotals[k].total
                        = SumOver(day, [i \in day |-> energyRecords[i].energyGenerated])
                   /\ dailyTotals[k].avgCloud
                        = RDiv(SumOver(day, [i \in day |-> RInt(energyRecords[i].cloudCoverage)]),
                               RInt(Cardinality(day)))
                   /\ dailyTotals[k].avgPrecip
                        = RDiv(SumOver(day, [i \in day |-> energyRecords[i].precipitation]),
                               RInt(Cardinality(day)))

(* C24: in triggerSyncAndDetect anomaly detection never starts before       *)
(* syncEnergyGenerationRecords has completed; if the sync fails detection   *)
(* is not run at all; and the 200 response is sent only after both steps    *)
(* have completed without error.                                            *)
C24_SyncThenDetect ==
  [][LET before == run["manual"]
         after == run'["manual"]
         settles == last' # last /\ last'.caller = "manual"
     IN  /\ (after.pc \in StoreAwaits /\ before.pc \notin StoreAwaits) => before.pc = "sync"
         /\ before.pc = "idle" => after.pc \in {"idle", "sync"}
         /\ (settles /\ before.pc = "sync") =>
              /\ last'.outcome = "rejected"
              /\ last'.failedAt = "sync"
              /\ last'.response = "next(error)"
              /\ last'.evaluated = {} /\ last'.created = {} /\ last'.found = {}
              /\ after.pc = "idle"
              /\ anomalies' = anomalies
         /\ (settles /\ last'.response = "200") =>
              /\ before.pc \in StoreAwaits
              /\ last'.outcome = "ok"
              /\ last'.failedAt = "none"
         /\ (settles /\ last'.outcome # "ok") => last'.response = "next(error)"]_vars

\* a manual trigger answered 200 after a detection that stored a record
C24_Witness ==
  /\ last.caller = "manual"
  /\ last.response = "200"
  /\ last.outcome = "ok"
  /\ last.created # {}
  /\ ~Active("manual")

\* a coordinate rounded to 2 decimals, as a number of hundredths
Rounded(milli) == IF milli < 0 THEN -((-milli + 5) \div 10) ELSE (milli + 5) \div 10

\* the number of hundredths a formatted coordinate stands for
KeyNumber(fixed) == IF fixed.negative THEN -fixed.hundredths ELSE fixed.hundredths

\* this step starts a call in slot s, which goes on to contact the provider
StartsFetch(s) ==
  /\ weatherStarted' # weatherStarted
  /\ weatherCalls[s].pc = "idle"
  /\ weatherCalls'[s].pc = "fetch"

\* this step starts a call that is answered at once, without contacting the provider
AnsweredFromCache ==
  /\ weatherStarted' # weatherStarted
  /\ weatherCalls' = weatherCalls

\* this step ends the call in slot s after it contacted the provider
EndsFetch(s) == weatherCalls[s].pc \in {"fetch", "json"} /\ weatherCalls'[s].pc = "idle"

\* the result is stored under the call's key with the current time, nothing else changes
StoresResult(s) ==
  weatherCache' = [weatherCache EXCEPT
                     ![CacheKey(weatherCalls[s].latitude, weatherCalls[s].longitude)] =
                       [data |-> weatherLast'.data, timestamp |-> weatherNow]]

(* C25 as stated: fetchWeatherFromOpenMeteo answers from the cache without  *)
(* contacting the provider exactly when an entry for the coordinate pair    *)
(* rounded to 2 decimals exists and is younger than 10 minutes; otherwise   *)
(* it contacts the provider and on success stores the result under that     *)
(* key with the current time; on a provider failure it returns the stale    *)
(* entry when one exists and otherwise ends in an error; on every failure   *)
(* the cache is left unchanged.                                             *)
C25_StaleOnAnyFailure ==
  [][LET entryFor(latitude, longitude) ==
           {k \in CacheKeys : /\ KeyNumber(k[1]) = Rounded(latitude)
                              /\ KeyNumber(k[2]) = Rounded(longitude)
                              /\ weatherCache[k] # Null}
         young(k) == weatherNow - weatherCache[k].timestamp < 10 * 60 * 1000
     IN  /\ AnsweredFromCache =>
              /\ \E k \in entryFor(weatherLast'.latitude, weatherLast'.longitude) : young(k)
              /\ weatherLast'.outcome = "data" /\ ~weatherLast'.contacted
         /\ \A s \in FetchSlots :
              /\ StartsFetch(s) =>
                   ~\E k \in entryFor(weatherCalls'[s].latitude, weatherCalls'[s].longitude) :
                      young(k)
              /\ EndsFetch(s) =>
                   IF weatherLast'.cause = Cause("response", 200)
                   THEN weatherLast'.outcome = "data" /\ StoresResult(s)
                   ELSE /\ weatherCache' = weatherCache
                        /\ weatherLast'.outcome = "data"
                             <=> entryFor(weatherCalls[s].latitude,
                                          weatherCalls[s].longitude) # {}]_vars

(* C25, what the code does instead: fetchWeatherFromOpenMeteo answers from *)
(* the cache without contacting the provider exactly when an entry under    *)
(* the key                                                                  *)
(* latitude.toFixed(2),longitude.toFixed(2) exists and is younger than 10   *)
(* minutes; otherwise it contacts the provider and on success stores the    *)
(* result under that key with the current time; on an HTTP 429 response it  *)
(* returns the entry it read at the start of the call when there was one;   *)
(* on every other failure, and on 429 without such an entry, it ends in an  *)
(* error; on every failure the cache is left unchanged.                     *)
C25_CacheThenProvider ==
  [][LET entry(latitude, longitude) == weatherCache[CacheKey(latitude, longitude)]
         young(e) == e # Null /\ weatherNow - e.timestamp < 10 * 60 * 1000
     IN  /\ AnsweredFromCache =>
              /\ young(entry(weatherLast'.latitude, weatherLast'.longitude))
              /\ weatherLast'.outcome = "data"
              /\ weatherLast'.data = entry(weatherLast'.latitude, weatherLast'.longitude).data
              /\ ~weatherLast'.contacted
              /\ weatherCache' = weatherCache
         /\ \A s \in FetchSlots :
              /\ StartsFetch(s) =>
                   /\ ~young(entry(weatherCalls'[s].latitude, weatherCalls'[s].longitude))
                   /\ weatherCalls'[s].cached
                        = entry(weatherCalls'[s].latitude, weatherCalls'[s].longitude)
                   /\ weatherCache' = weatherCache
              /\ EndsFetch(s) =>
                   /\ weatherLast'.contacted
                   /\ IF weatherLast'.cause = Cause("response", 200)
                      THEN weatherLast'.outcome = "data" /\ StoresResult(s)
                      ELSE /\ weatherCache' = weatherCache
                           /\ weatherLast'.outcome \in {"data", "error"}
                           /\ weatherLast'.outcome = "data"
                                <=> /\ weatherLast'.cause = Cause("response", 429)
                                    /\ weatherCalls[s].cached # Null
                           /\ weatherLast'.outcome = "data" =>
                                weatherLast'.data = weatherCalls[s].cached.data]_vars

\* a call that found an entry of 10 minutes of age, went to the provider, was answered 429
\* and returned that entry
C25_Witness ==
  /\ weatherLast.slot # 0
  /\ weatherLast.cause = Cause("response", 429)
  /\ weatherLast.outcome = "data"
  /\ weatherLast.contacted
  /\ weatherNow - weatherLast.data.time = CACHE_TTL_MS
  /\ weatherCache[CacheKey(weatherLast.latitude, weatherLast.longitude)].data = weatherLast.data

\* the instant 00:00 UTC of a calendar date
MidnightUTC(date) == [day |-> date, ms |-> 0]

\* 00:00 UTC of the date falls outside 06:00-18:00 on the wall clock of the process
OutsideDaylight(date) ==
  LET ms == ((MidnightUTC(date).ms + tzOffset * MsPerHour) + MsPerDay) % MsPerDay
  IN  ms < 6 * MsPerHour \/ ms > 18 * MsPerHour

\* the buckets of the stored readings whose total exceeds 0.01 kWh
GeneratingBuckets ==
  {b \in Units \X RecentDays :
     /\ b[1] \in ActiveUnits
     /\ b[2] \in BucketDates(b[1])
     /\ RGt(DayData(RecentRecords(b[1], Now), b[2]).total, Rat(1, 100))}

NightIssue(a) ==
  /\ a.anomalyType = "SENSOR_MALFUNCTION"
  /\ \E i \in 1..Len(a.details.issues) :
       a.details.issues[i].issue = "Night-time generation detected"
  /\ a.details.isNight

TenNewest(u) ==
  LET mine == {i \in 1..Len(energyRecords) :
                 /\ energyRecords[i].solarUnitId = u
                 /\ TLe([day |-> Now.day - 7, ms |-> Now.ms], energyRecords[i].timestamp)}
      newer(i) == Cardinality({j \in mine : TLt(energyRecords[i].timestamp,
                                                energyRecords[j].timestamp)})
      count == IF Cardinality(mine) < 10 THEN Cardinality(mine) ELSE 10
  IN  [r \in 1..count |-> energyRecords[CHOOSE i \in mine : newer(i) = r - 1].energyGenerated]

HasIssue(a, name) ==
  /\ a.anomalyType = "SENSOR_MALFUNCTION"
  /\ \E i \in 1..Len(a.details.issues) : a.details.issues[i].issue = name

SeriesIssues == {"Sensor reading stuck at same value", "Erratic sensor readings detected"}

RecordsOfUnit(u) == {i \in 1..Len(anomalies) : anomalies[i].solarUnitId = u}

(* C27: the recentReadings passed to the sensor check are the unit's 10     *)
(* most recent readings, taken once per unit and the same for every daily   *)
(* bucket; within a run the stuck-sensor and the erratic-noise issue fire   *)
(* for every bucket of a unit or for none, and when one of them fires every *)
(* bucket of that unit gets a SENSOR_MALFUNCTION record and no other.       *)
C27_SeriesSharedByBuckets ==
  /\ \A p \in Procs :
       run[p].pc \in {"findOne", "save"} =>
         /\ run[p].recentReadings = TenNewest(Head(run[p].units).id)
         /\ \A i \in 1..Len(run[p].detections) :
              run[p].detections[i].anomalyType = "SENSOR_MALFUNCTION" =>
                \A name \in SeriesIssues :
                  HasIssue(run[p].detections[i], name)
                    <=> \/ name \in {x.issue : x \in Range(StuckIssue(run[p].recentReadings))}
                        \/ name \in {x.issue : x \in Range(ErraticIssue(run[p].recentReadings))}
  /\ \A u \in Units : \A name \in SeriesIssues :
       /\ \A i, j \in RecordsOfUnit(u) :
            HasIssue(anomalies[i], name) = HasIssue(anomalies[j], name)
       /\ (\E i \in RecordsOfUnit(u) : HasIssue(anomalies[i], name)) =>
            /\ \A i \in RecordsOfUnit(u) : anomalies[i].anomalyType = "SENSOR_MALFUNCTION"
            /\ (Settled /\ last.outcome = "ok") =>
                 \A date \in BucketDates(u) :
                   \E i \in RecordsOfUnit(u) :
                     RecordDate(anomalies[i]) = date /\ HasIssue(anomalies[i], name)

\* in daylight a completed run over eleven readings of unit 1 has left a stuck-sensor record
\* for both of its days
C27_Witness ==
  /\ tzOffset = 8
  /\ Settled /\ last.outcome = "ok"
  /\ Len(energyRecords) = 12
  /\ \A date \in RecentDays :
       \E i \in last.created :
         /\ anomalies[i].solarUnitId = 1
         /\ RecordDate(anomalies[i]) = date
         /\ HasIssue(anomalies[i], "Sensor reading stuck at same value")
         /\ ~anomalies[i].details.isNight

\* unit u has a reading of the trailing 7 days on calendar day `day` of the process clock
HasReadingOn(u, day) ==
  \E i \in 1..Len(energyRecords) :
    /\ energyRecords[i].solarUnitId = u
    /\ TLe([day |-> Now.day - 7, ms |-> Now.ms], energyRecords[i].timestamp)
    /\ Local(energyRecords[i].timestamp).day = day

(* C28: a run creates no anomaly record of any type for an active unit that *)
(* has no reading in the trailing 7 days, and no record for a calendar day  *)
(* of a unit on which that unit has no reading.                             *)
C28_NoRecordWithoutReading ==
  \A i \in 1..Len(anomalies) :
    /\ \E j \in 1..Len(energyRecords) :
         /\ energyRecords[j].solarUnitId = anomalies[i].solarUnitId
         /\ TLe([day |-> Now.day - 7, ms |-> Now.ms], energyRecords[j].timestamp)
    /\ HasReadingOn(anomalies[i].solarUnitId, anomalies[i].affectedPeriod.start.day)

(* C29: the dedup lookup ignores the status of the existing record: once a  *)
(* record for (solarUnitId, anomalyType, day) exists no later run creates   *)
(* another one for that triple, also after the record has been              *)
(* ACKNOWLEDGED or RESOLVED, and no run changes a record's status back to   *)
(* ACTIVE.                                                                  *)
C29_DedupIgnoresStatus ==
  [][/\ \A i \in 1..Len(anomalies) :
          /\ i <= Len(anomalies')
          /\ anomalies'[i].status = "ACTIVE" => anomalies[i].status = "ACTIVE"
          /\ run' # run => anomalies'[i] = anomalies[i]
     /\ Len(anomalies') > Len(anomalies) =>
          /\ Len(anomalies') = Len(anomalies) + 1
          /\ \A i \in 1..Len(anomalies) :
               Triple(anomalies[i]) # Triple(anomalies'[Len(anomalies')])
     /\ \A p \in Procs :
          (run[p].pc = "findOne" /\ run'[p] # run[p]) =>
            (run'[p].pc = "save"
               <=> ~\E i \in 1..Len(anomalies) :
                      Triple(anomalies[i]) = <<Head(run[p].units).id,
                                               Head(run[p].detections).anomalyType,
                                               StartOfDay(run[p].date).day>>)]_vars

\* a run has completed that found a RESOLVED record for a detection and created nothing
C29_Witness ==
  /\ Settled
  /\ last.caller = "cron"
  /\ last.outcome = "ok"
  /\ "RESOLVED" \in last.foundStatus
  /\ last.created = {}
  /\ \E i \in last.found : anomalies[i].status = "RESOLVED"
  /\ \A i, j \in 1..Len(anomalies) : Triple(anomalies[i]) = Triple(anomalies[j]) => i = j

\* the stored records of a type
OfType(type) == {i \in 1..Len(anomalies) : anomalies[i].anomalyType = type}

=============================================================================
